---- MODULE Spec2Model ----
(***************************************************************************)
(* Model of the catalogue bot: the unified ads feed (src/bot.py) with its  *)
(* permission gate and its mirror, the column mapper                       *)
(* (src/column_mapper.py), the template store (src/config_manager.py) and  *)
(* the cell conversions, cards and merge of the parser (src/parser.py).    *)
(*                                                                         *)
(* Python text is modelled by TLA+ strings; TLC evaluates Len, \o, SubSeq, *)
(* Head and Tail on them, so strip(), lower(), "in" and the digit filter   *)
(* are computed character by character.  Python values of varying type    *)
(* (None / int / str / list, or a missing dict key) are tagged records.    *)
(***************************************************************************)
EXTENDS Integers, Sequences, FiniteSets, TLC

VARIABLES
    feedFile,   \* ads_feed.json: absent, or a document {updated_at, items}
    clock,      \* datetime.now(): the wall clock, one tick later at every request
    last,       \* the outcome of the last handler call (result, mirror call)
    \* auto_map_columns: its arguments, its locals, its return value
    excel_columns,      \* the headers of the sheet, in sheet order
    target_fields,      \* the fields to map, in the order they are tried
    keywords,           \* config["fuzzy_keywords"]: field -> {primary, synonyms}
    field_index,        \* how many target fields the outer loop has processed
    mapping,            \* dict header -> field, in insertion order
    confidence,         \* dict field -> score, in insertion order
    used_excel_cols,    \* the headers consumed so far
    map_result,         \* unmatched_excel and unmatched_target once returned
    \* calculate_match_score: its arguments and its return value
    excel_col,          \* the normalised header
    keywords_dict,      \* {primary, synonyms} of one field
    score,              \* the returned score, None before the call
    \* validate_mapping: its argument and its return value
    vm_mapping,         \* the mapping handed to validate_mapping
    vm_result,          \* (is_valid, missing_critical), None before the call
    \* the mirror (Django backend) as the bot is configured for it
    backend_sync,       \* backend_sync_enabled(): URL and API key are set
    \* the template store (config_manager) and the import that consults it
    configFile,         \* config.json: absent, or the JSON document
    tpl_last,           \* the call last made on the store or the last import, its outcome
    \* the cell conversions of the parser: safe_convert_year, format_price
    cell,               \* the value handed to the conversion
    cell_out,           \* the conversion called and what it returned or raised
    \* prepare_cards: one row of the frame and the card made of it
    row,                \* the row, a field that is missing being absent
    made_card,          \* the list prepare_cards returns, None before the call
    \* merge_data: its two frames and the frame it returns
    df1,                \* the stock rows
    df2,                \* the winter_sale rows
    merged,     \* the returned frame, None before the call
    \* two feed mutations run as separate load-modify-save sequences
    workers,            \* per worker: its request, where it stands, the feed it loaded
    save_order,         \* the workers in the order they saved
    \* the chat import: parse_command and parse_document_handler
    parser_waiting_file, \* context.user_data["parser_waiting_file"] of each user
    action_log,         \* the entries written by log_user_action, oldest first
    chat_last,          \* the last update handled: who sent it and what was replied
    \* the relational mirror as the feed mutations fill it
    ad_items,           \* the AdItem rows: ad_id and author_telegram_id
    mirror_failed       \* whether a mirror call was answered with an error status

feedVars == <<feedFile, clock, last>>
mapVars == <<excel_columns, target_fields, keywords, field_index, mapping, confidence,
             used_excel_cols, map_result>>
scoreVars == <<excel_col, keywords_dict, score>>
validateVars == <<vm_mapping, vm_result>>
mirrorVars == <<backend_sync>>
templateVars == <<configFile, tpl_last>>
cellVars == <<cell, cell_out>>
cardVars == <<row, made_card>>
mergeVars == <<df1, df2, merged>>
raceVars == <<workers, save_order>>
chatVars == <<parser_waiting_file, action_log, chat_last>>
syncVars == <<ad_items, mirror_failed>>
vars == <<feedVars, mapVars, scoreVars, validateVars, mirrorVars, templateVars, cellVars, cardVars, mergeVars, raceVars, chatVars, syncVars>>

\* what the handlers of one component leave alone
exceptFeed == <<mapVars, scoreVars, validateVars, mirrorVars, templateVars, cellVars, cardVars, mergeVars, raceVars, chatVars, syncVars>>
exceptMap == <<feedVars, scoreVars, validateVars, mirrorVars, templateVars, cellVars, cardVars, mergeVars, raceVars, chatVars, syncVars>>
exceptScore == <<feedVars, mapVars, validateVars, mirrorVars, templateVars, cellVars, cardVars, mergeVars, raceVars, chatVars, syncVars>>
exceptValidate == <<feedVars, mapVars, scoreVars, mirrorVars, templateVars, cellVars, cardVars, mergeVars, raceVars, chatVars, syncVars>>
exceptTemplates == <<feedVars, mapVars, scoreVars, validateVars, mirrorVars, cellVars, cardVars, mergeVars, raceVars, chatVars, syncVars>>
exceptCells == <<feedVars, mapVars, scoreVars, validateVars, mirrorVars, templateVars, cardVars, mergeVars, raceVars, chatVars, syncVars>>
exceptCards == <<feedVars, mapVars, scoreVars, validateVars, mirrorVars, templateVars, cellVars, mergeVars, raceVars, chatVars, syncVars>>
exceptMerge == <<feedVars, mapVars, scoreVars, validateVars, mirrorVars, templateVars, cellVars, cardVars, raceVars, chatVars, syncVars>>
exceptRace == <<mapVars, scoreVars, validateVars, mirrorVars, templateVars, cellVars, cardVars, mergeVars, chatVars, syncVars>>

----------------------------------------------------------------------------
(* Bounds of the model.                                                    *)

MaxClock == 3
MaxImportClock == 4
MaxColumns == 2
MaxFields == 2
MaxHeaderLen == 3
MaxKeywords == 2
MaxMapping == 4
MaxMirrorClock == 3
MaxRows == 2

----------------------------------------------------------------------------
(* Python values.                                                          *)

Absent == [t |-> "absent"]
PyNone == [t |-> "none"]
PyInt(n) == [t |-> "int", i |-> n]
PyStr(x) == [t |-> "str", s |-> x]
PyList(xs) == [t |-> "list", l |-> xs]
PyTime(n) == [t |-> "time", at |-> n]

\* dict.get(key): a missing key reads as None
Get(v) == IF v = Absent THEN PyNone ELSE v

\* dict.get(key, default)
GetDefault(v, d) == IF v = Absent THEN d ELSE v

\* Python truthiness of a value
Truthy(v) ==
    CASE v.t = "absent" -> FALSE
      [] v.t = "none" -> FALSE
      [] v.t = "int" -> v.i # 0
      [] v.t = "str" -> v.s # ""
      [] v.t = "list" -> v.l # <<>>
      [] OTHER -> TRUE

----------------------------------------------------------------------------
(* Python str operations.                                                  *)

Char(s, i) == SubSeq(s, i, i)

UpperChars == "ABCDEFGHIJKLMNOPQRSTUVWXYZ"
LowerChars == "abcdefghijklmnopqrstuvwxyz"
DigitChars == "0123456789"

IndexIn(c, table) == CHOOSE i \in 1..Len(table) : Char(table, i) = c
IsIn(c, table) == \E i \in 1..Len(table) : Char(table, i) = c

LowerChar(c) == IF IsIn(c, UpperChars) THEN Char(LowerChars, IndexIn(c, UpperChars)) ELSE c

RECURSIVE Lower(_)
Lower(s) == IF s = "" THEN "" ELSE LowerChar(Head(s)) \o Lower(Tail(s))

RECURSIVE LStrip(_)
LStrip(s) == IF s # "" /\ Head(s) = " " THEN LStrip(Tail(s)) ELSE s

RECURSIVE RStrip(_)
RStrip(s) ==
    IF s # "" /\ Char(s, Len(s)) = " " THEN RStrip(SubSeq(s, 1, Len(s) - 1)) ELSE s

Strip(s) == RStrip(LStrip(s))

\* needle in hay
Contains(needle, hay) ==
    \E i \in 0..(Len(hay) - Len(needle)) : SubSeq(hay, i + 1, i + Len(needle)) = needle

\* s[:n]
Prefix(s, n) == IF Len(s) <= n THEN s ELSE SubSeq(s, 1, n)

\* re.sub(r"[^\d]", "", s)
RECURSIVE OnlyDigits(_)
OnlyDigits(s) ==
    IF s = "" THEN ""
    ELSE (IF IsIn(Head(s), DigitChars) THEN Head(s) ELSE "") \o OnlyDigits(Tail(s))

\* int(text) of a string of decimal digits
RECURSIVE DigitsToInt(_)
DigitsToInt(s) ==
    IF s = "" THEN 0
    ELSE 10 * DigitsToInt(SubSeq(s, 1, Len(s) - 1)) + (IndexIn(Char(s, Len(s)), DigitChars) - 1)

\* str(n) of a natural number
RECURSIVE IntToStr(_)
IntToStr(n) ==
    IF n < 10 THEN Char(DigitChars, n + 1)
    ELSE IntToStr(n \div 10) \o Char(DigitChars, (n % 10) + 1)

\* str(value)
PyToStr(v) ==
    CASE v.t = "str" -> v.s
      [] v.t = "int" -> IntToStr(v.i)
      [] v.t = "none" -> "None"
      [] OTHER -> ""

----------------------------------------------------------------------------
(* Field normalisation of feed items (src/bot.py).  Cyrillic literals of   *)
(* the source are written transliterated.                                  *)

DetailsLimit == 2000

NotSpecified == "Ne ukazano"

\* _parse_price_to_int(value)
parse_price_to_int(value) ==
    CASE value.t = "none" -> 0
      [] value.t = "int" -> value.i
      [] OTHER ->
            LET text == OnlyDigits(PyToStr(value))
            IN  IF text # "" THEN DigitsToInt(text) ELSE 0

\* _parse_price_to_int(x) or None
YearOrNone(value) ==
    LET y == parse_price_to_int(value) IN IF y # 0 THEN PyInt(y) ELSE PyNone

\* _normalize_category(category)
normalize_category(category) ==
    IF ~Truthy(category) THEN "equipment"
    ELSE LET normalized == Lower(Strip(PyToStr(category)))
         IN  CASE normalized \in {"car", "passenger", "legkovoj", "legkovoj avtomobil"} -> "passenger"
               [] normalized \in {"spec", "spectehnika"} -> "spec"
               [] normalized \in {"truck", "gruzovoj", "gruzovoj transport"} -> "truck"
               [] normalized \in {"equipment", "oborudovanie"} -> "equipment"
               [] OTHER -> "equipment"

\* _category_from_vehicle_type that tries the truck keywords first
category_from_vehicle_type_truck_first(vehicle_type) ==
    LET text == Lower(vehicle_type)
    IN  CASE \E x \in {"gruz", "tyagach", "furgon", "samosval", "pricep"} : Contains(x, text)
                -> "truck"
          [] \E x \in {"legkov", "lcv", "sedan", "hetchbek", "vnedorozh"} : Contains(x, text)
                -> "passenger"
          [] \E x \in {"ekskavat", "buldozer", "traktor", "katok", "pogruzchik", "kran"} :
                Contains(x, text)
                -> "spec"
          [] OTHER -> "equipment"

\* _category_from_vehicle_type(vehicle_type)
category_from_vehicle_type(vehicle_type) ==
    LET text == Lower(vehicle_type)
    IN  CASE \E x \in {"legkov", "lcv", "sedan", "hetchbek", "vnedorozh"} : Contains(x, text)
                -> "passenger"
          [] \E x \in {"gruz", "tyagach", "furgon", "samosval", "pricep"} : Contains(x, text)
                -> "truck"
          [] \E x \in {"ekskavat", "buldozer", "traktor", "katok", "pogruzchik", "kran"} :
                Contains(x, text)
                -> "spec"
          [] OTHER -> "equipment"

----------------------------------------------------------------------------
(* The feed document.                                                      *)

NoFile == [kind |-> "absent"]

FeedDoc(updated_at, items) == [kind |-> "doc", updated_at |-> updated_at, items |-> items]

\* load_ads_feed(): a missing, unreadable or malformed file reads as an empty feed
load_ads_feed(file, now) ==
    CASE file.kind = "absent" -> [updated_at |-> PyTime(now), items |-> <<>>]
      [] file.kind = "doc" -> [updated_at |-> file.updated_at, items |-> file.items]
      [] OTHER -> [updated_at |-> PyTime(now), items |-> <<>>]

\* save_ads_feed(feed): stamps updated_at and rewrites the whole document
save_ads_feed(feed, now) == FeedDoc(PyTime(now), feed.items)

\* the items a reader of the persisted feed sees
Items(file) == IF file.kind = "doc" THEN file.items ELSE <<>>

\* one item of replace_excel_ads's loop; n is len(excel_items) at that moment
ExcelItem(card, n, now) ==
    LET code == Strip(card.code)
        title == Strip(card.title)
    IN  [id |-> IF code # "" THEN "excel-" \o code ELSE "excel-" \o IntToStr(n + 1),
         source_type |-> "excel",
         external_id |-> code,
         title |-> title,
         category |-> category_from_vehicle_type(card.vehicle_type),
         price |-> parse_price_to_int(PyStr(card.price)),
         year |-> YearOrNone(PyStr(card.year)),
         details |-> Prefix(IF card.short_desc # "" THEN card.short_desc ELSE card.comment,
                            DetailsLimit),
         location |-> IF card.location # "" THEN card.location
                      ELSE IF card.address # "" THEN card.address ELSE NotSpecified,
         image |-> card.photo_url,
         status |-> "active",
         createdAt |-> PyTime(now),
         author |-> Absent,
         updatedAt |-> Absent]

\* the loop of replace_excel_ads over the cards: cards with an empty title are skipped
RECURSIVE BuildExcelItems(_, _, _)
BuildExcelItems(cards, acc, now) ==
    IF cards = <<>> THEN acc
    ELSE IF Strip(Head(cards).title) = ""
         THEN BuildExcelItems(Tail(cards), acc, now)
         ELSE BuildExcelItems(Tail(cards),
                              Append(acc, ExcelItem(Head(cards), Len(acc), now)), now)

IsNotExcel(item) == item.source_type # "excel"

\* replace_excel_ads without the source_type filter: the fresh items are appended
replace_excel_ads_keep_all(file, cards, now) ==
    LET feed == load_ads_feed(file, now)
        excel_items == BuildExcelItems(cards, <<>>, now)
    IN  [file |-> save_ads_feed([feed EXCEPT !.items = feed.items \o excel_items], now),
         result |-> Len(excel_items),
         mirror |-> IF excel_items = <<>> THEN "none" ELSE "/api/ads/bulk-upsert/"]

\* replace_excel_ads(cards): the saved file, the returned count, the mirror call
replace_excel_ads(file, cards, now) ==
    LET feed == load_ads_feed(file, now)
        manual_items == SelectSeq(feed.items, IsNotExcel)
        excel_items == BuildExcelItems(cards, <<>>, now)
    IN  [file |-> save_ads_feed([feed EXCEPT !.items = manual_items \o excel_items], now),
         result |-> Len(excel_items),
         mirror |-> IF excel_items = <<>> THEN "none" ELSE "/api/ads/bulk-upsert/"]

\* f"manual-{int(datetime.now().timestamp())}-{user_data.get('id')}"
ManualId(now, user_id) == "manual-" \o IntToStr(now) \o "-" \o IntToStr(user_id)

\* the feed_item built by add_manual_ad_to_feed
ManualItem(ad, user_id, now) ==
    LET ad_id == IF Truthy(ad.id) THEN PyToStr(ad.id) ELSE ManualId(now, user_id)
        location == Strip(PyToStr(GetDefault(ad.location, PyStr(NotSpecified))))
    IN  [id |-> ad_id,
         source_type |-> "manual",
         external_id |-> ad_id,
         title |-> Strip(PyToStr(GetDefault(ad.title, PyStr("")))),
         category |-> normalize_category(Get(ad.category)),
         price |-> parse_price_to_int(Get(ad.price)),
         year |-> YearOrNone(Get(ad.year)),
         details |-> Prefix(Strip(PyToStr(GetDefault(ad.details, PyStr("")))), DetailsLimit),
         location |-> IF location # "" THEN location ELSE NotSpecified,
         image |-> IF ad.images.t = "list"
                   THEN (IF ad.images.l # <<>> THEN Head(ad.images.l) ELSE "")
                   ELSE "",
         status |-> "active",
         createdAt |-> IF Truthy(ad.createdAt) THEN ad.createdAt ELSE PyTime(now),
         author |-> [id |-> PyInt(user_id)],
         updatedAt |-> Absent]

\* add_manual_ad_to_feed without the removal of the items sharing the id
WithoutIdKeepAll(items, ad_id) == items

\* the items kept by add_manual_ad_to_feed: those whose id differs from ad_id
RECURSIVE WithoutId(_, _)
WithoutId(items, ad_id) ==
    IF items = <<>> THEN <<>>
    ELSE (IF Head(items).id # ad_id THEN <<Head(items)>> ELSE <<>>)
         \o WithoutId(Tail(items), ad_id)

\* add_manual_ad_to_feed(ad, user_data)
add_manual_ad_to_feed(file, ad, user_id, now) ==
    LET feed == load_ads_feed(file, now)
        feed_item == ManualItem(ad, user_id, now)
        items == Append(WithoutId(feed.items, feed_item.id), feed_item)
    IN  [file |-> save_ads_feed([feed EXCEPT !.items = items], now),
         result |-> feed_item,
         mirror |-> "/api/ads/upsert/"]

\* _find_feed_item_by_id(feed, ad_id): the index of the first item with that id, 0 if none
find_feed_item_by_id(feed, ad_id) ==
    IF \E i \in 1..Len(feed.items) : feed.items[i].id = ad_id
    THEN CHOOSE i \in 1..Len(feed.items) :
            /\ feed.items[i].id = ad_id
            /\ \A j \in 1..(i - 1) : feed.items[j].id # ad_id
    ELSE 0

----------------------------------------------------------------------------
(* The permission gate.                                                    *)

USER_ROLE_USER == "user"
USER_ROLE_LEASING_COMPANY == "leasing_company"
USER_ROLE_ADMIN == "admin"
AD_MANAGEMENT_ROLES == {USER_ROLE_ADMIN, USER_ROLE_LEASING_COMPANY}

ReasonInsufficient == "Nedostatochno prav dlya izmeneniya obyavleniya."
ReasonOnlyOwn == "Lizingovaya kompaniya mozhet izmenyat tolko svoi obyavleniya."
ReasonNotFound == "Obyavlenie ne najdeno."
ReasonEmptyTitle == "Nazvanie obyavleniya ne mozhet byt pustym."
ReasonNoData == "Net dannyh dlya obnovleniya."

\* owner_id of _can_user_edit_or_delete_ad: the author's id as an int, None without author
OwnerId(ad_item) ==
    LET author == ad_item.author
    IN  IF author = Absent THEN PyNone
        ELSE IF author.id.t = "int" THEN author.id ELSE PyNone

\* the gate without the owner comparison: every leasing company passes
can_user_edit_or_delete_ad_no_owner(actor_user_id, actor_role, ad_item) ==
    IF actor_role \in {USER_ROLE_ADMIN, USER_ROLE_LEASING_COMPANY}
    THEN [allowed |-> TRUE, reason |-> ""]
    ELSE [allowed |-> FALSE, reason |-> ReasonInsufficient]

\* _can_user_edit_or_delete_ad(actor_user_id, actor_role, ad_item)
can_user_edit_or_delete_ad(actor_user_id, actor_role, ad_item) ==
    IF actor_role = USER_ROLE_ADMIN THEN [allowed |-> TRUE, reason |-> ""]
    ELSE IF actor_role # USER_ROLE_LEASING_COMPANY
         THEN [allowed |-> FALSE, reason |-> ReasonInsufficient]
         ELSE IF OwnerId(ad_item) # PyInt(actor_user_id)
              THEN [allowed |-> FALSE, reason |-> ReasonOnlyOwn]
              ELSE [allowed |-> TRUE, reason |-> ""]

----------------------------------------------------------------------------
(* Update and delete of a feed item.                                       *)

UpdatableFields == {"title", "category", "price", "year", "details", "location", "status", "image"}

ValidStatuses == {"active", "inactive", "archived"}

\* the dict `updates` built by update_manual_ad_in_feed from the payload; a field
\* the payload does not set is Absent.  The title entry is only read when the
\* title check passed.
BuildUpdates(ad_updates) ==
    LET status == Lower(Strip(IF Truthy(ad_updates.status) THEN PyToStr(ad_updates.status) ELSE ""))
        location == Strip(IF Truthy(ad_updates.location) THEN PyToStr(ad_updates.location) ELSE "")
    IN  [title |-> IF ad_updates.title # Absent
                   THEN PyStr(Strip(IF Truthy(ad_updates.title)
                                    THEN PyToStr(ad_updates.title) ELSE ""))
                   ELSE Absent,
         category |-> IF ad_updates.category # Absent
                      THEN PyStr(normalize_category(ad_updates.category)) ELSE Absent,
         price |-> IF ad_updates.price # Absent
                   THEN PyInt(parse_price_to_int(ad_updates.price)) ELSE Absent,
         year |-> IF ad_updates.year # Absent THEN YearOrNone(ad_updates.year) ELSE Absent,
         details |-> IF ad_updates.details # Absent
                     THEN PyStr(Prefix(Strip(IF Truthy(ad_updates.details)
                                             THEN PyToStr(ad_updates.details) ELSE ""),
                                       DetailsLimit))
                     ELSE Absent,
         location |-> IF ad_updates.location # Absent
                      THEN PyStr(IF location # "" THEN location ELSE NotSpecified)
                      ELSE Absent,
         status |-> IF ad_updates.status # Absent /\ status \in ValidStatuses
                    THEN PyStr(status) ELSE Absent,
         image |-> IF ad_updates.images.t = "list" /\ ad_updates.images.l # <<>>
                   THEN PyStr(Head(ad_updates.images.l))
                   ELSE IF ad_updates.image # Absent
                        THEN PyStr(IF Truthy(ad_updates.image)
                                   THEN PyToStr(ad_updates.image) ELSE "")
                        ELSE Absent]

\* an update that resets the price when the payload does not name it
ApplyUpdatesResetPrice(target, updates, now) ==
    [target EXCEPT
        !.title = IF updates.title # Absent THEN updates.title.s ELSE @,
        !.category = IF updates.category # Absent THEN updates.category.s ELSE @,
        !.price = IF updates.price # Absent THEN updates.price.i ELSE 0,
        !.year = IF updates.year # Absent THEN updates.year ELSE @,
        !.details = IF updates.details # Absent THEN updates.details.s ELSE @,
        !.location = IF updates.location # Absent THEN updates.location.s ELSE @,
        !.status = IF updates.status # Absent THEN updates.status.s ELSE @,
        !.image = IF updates.image # Absent THEN updates.image.s ELSE @,
        !.updatedAt = PyTime(now)]

\* target.update(updates); target["updatedAt"] = now
ApplyUpdates(target, updates, now) ==
    [target EXCEPT
        !.title = IF updates.title # Absent THEN updates.title.s ELSE @,
        !.category = IF updates.category # Absent THEN updates.category.s ELSE @,
        !.price = IF updates.price # Absent THEN updates.price.i ELSE @,
        !.year = IF updates.year # Absent THEN updates.year ELSE @,
        !.details = IF updates.details # Absent THEN updates.details.s ELSE @,
        !.location = IF updates.location # Absent THEN updates.location.s ELSE @,
        !.status = IF updates.status # Absent THEN updates.status.s ELSE @,
        !.image = IF updates.image # Absent THEN updates.image.s ELSE @,
        !.updatedAt = PyTime(now)]

\* a refusal issued after the mirror was already called
RejectedAfterSync(file, reason) ==
    [file |-> file, ok |-> FALSE, reason |-> reason, mirror |-> "/api/ads/update/"]

\* return None, reason / return False, reason: nothing saved, nothing mirrored
Rejected(file, reason) == [file |-> file, ok |-> FALSE, reason |-> reason, mirror |-> "none"]

\* update_manual_ad_in_feed(ad_id, ad_updates, actor_user_data, actor_role)
update_manual_ad_in_feed(file, ad_id, ad_updates, actor_user_id, actor_role, now) ==
    LET feed == load_ads_feed(file, now)
        index == find_feed_item_by_id(feed, ad_id)
    IN  IF index = 0 THEN Rejected(file, ReasonNotFound)
        ELSE
        LET target == feed.items[index]
            gate == can_user_edit_or_delete_ad(actor_user_id, actor_role, target)
            updates == BuildUpdates(ad_updates)
        IN  IF ~gate.allowed THEN Rejected(file, gate.reason)
            ELSE IF ad_updates.title # Absent /\ updates.title.s = ""
                 THEN Rejected(file, ReasonEmptyTitle)
            ELSE IF \A f \in UpdatableFields : updates[f] = Absent
                 THEN Rejected(file, ReasonNoData)
            ELSE [file |-> save_ads_feed(
                              [feed EXCEPT !.items[index] = ApplyUpdates(target, updates, now)],
                              now),
                  ok |-> TRUE,
                  reason |-> "",
                  mirror |-> "/api/ads/update/"]

\* del items[index]
DeleteAt(items, index) == SubSeq(items, 1, index - 1) \o SubSeq(items, index + 1, Len(items))

\* delete_manual_ad_from_feed(ad_id, actor_user_data, actor_role)
delete_manual_ad_from_feed(file, ad_id, actor_user_id, actor_role, now) ==
    LET feed == load_ads_feed(file, now)
        index == find_feed_item_by_id(feed, ad_id)
    IN  IF index = 0 THEN Rejected(file, ReasonNotFound)
        ELSE
        LET gate == can_user_edit_or_delete_ad(actor_user_id, actor_role, feed.items[index])
        IN  IF ~gate.allowed THEN Rejected(file, gate.reason)
            ELSE [file |-> save_ads_feed(
                              [feed EXCEPT !.items = DeleteAt(feed.items, index)], now),
                  ok |-> TRUE,
                  reason |-> "",
                  mirror |-> "/api/ads/delete/"]

----------------------------------------------------------------------------
(* Inputs of the handlers.                                                 *)

UserIds == {1, 2}
Roles == {USER_ROLE_USER, USER_ROLE_LEASING_COMPANY, USER_ROLE_ADMIN}

BlankCard ==
    [code |-> "", title |-> "", vehicle_type |-> "", price |-> "Cena po zaprosu", year |-> "",
     short_desc |-> "", comment |-> "", location |-> "", address |-> "", photo_url |-> ""]

\* cards as prepare_cards hands them over: a coded card, a card without code, a card
\* without title
CardKia == [BlankCard EXCEPT !.code = "1", !.title = "Kia Rio (2015)",
                             !.vehicle_type = "Legkovoj", !.price = "1 500 000 R",
                             !.year = "2015", !.comment = "ok", !.address = "Omsk"]
CardKamaz == [BlankCard EXCEPT !.title = " Kamaz ", !.vehicle_type = "Samosval",
                               !.short_desc = "2010 g.", !.location = "Tomsk",
                               !.photo_url = "http://p.ru/1.jpg"]
CardNoTitle == [BlankCard EXCEPT !.code = "2", !.title = " "]

\* cards by vehicle type: keywords of two groups, of the third group, of no group, and
\* no vehicle type at all
CardVan == [BlankCard EXCEPT !.title = "Gazel", !.vehicle_type = "Legkovoj furgon"]
CardCrane == [BlankCard EXCEPT !.title = "Ivanovec", !.vehicle_type = "Gruzovoj avtoKRAN"]
CardDigger == [BlankCard EXCEPT !.title = "Hitachi", !.vehicle_type = "Ekskavator"]
CardBus == [BlankCard EXCEPT !.title = "Paz", !.vehicle_type = "Avtobus"]
CardUntyped == [BlankCard EXCEPT !.title = "Stanok"]

\* the card lists an import may deliver: none, one card, a card without title between
\* two others, a repeated code, a card without code before the card coded "1"
CardLists ==
    { <<>>,
      <<CardKia>>,
      <<CardNoTitle>>,
      <<CardKamaz, CardNoTitle, CardKamaz>>,
      <<CardKia, CardKia>>,
      <<CardKamaz, CardKia>>,
      <<CardVan, CardCrane, CardDigger, CardBus, CardUntyped>> }

BlankAd ==
    [id |-> Absent, title |-> Absent, category |-> Absent, price |-> Absent, year |-> Absent,
     details |-> Absent, location |-> Absent, images |-> Absent, createdAt |-> Absent]

\* submissions of the WebApp: without id, twice with the id "m1", with the id of an
\* imported item, with a two-digit year
AdPool ==
    { [BlankAd EXCEPT !.title = PyStr("Gaz"), !.category = PyStr("truck"), !.price = PyInt(500),
                      !.year = PyStr("2010"), !.details = PyStr(" d "),
                      !.images = PyList(<<"p.jpg">>)],
      [BlankAd EXCEPT !.id = PyStr("m1"), !.title = PyStr(" Uaz "), !.category = PyStr(" Car"),
                      !.price = PyStr("1 200 r"), !.year = PyInt(2020),
                      !.location = PyStr("Omsk"), !.createdAt = PyStr("2024-01-01")],
      [BlankAd EXCEPT !.id = PyStr("m1"), !.title = PyStr("Uaz 2"), !.category = PyNone,
                      !.location = PyStr(" "), !.images = PyList(<<>>)],
      [BlankAd EXCEPT !.id = PyStr("excel-1"), !.title = PyStr("Bus")],
      [BlankAd EXCEPT !.id = PyStr("m1"), !.title = PyStr("Zaz"), !.year = PyStr("68")] }

BlankUpdate ==
    [title |-> Absent, category |-> Absent, price |-> Absent, year |-> Absent,
     details |-> Absent, location |-> Absent, status |-> Absent, images |-> Absent,
     image |-> Absent]

\* update payloads: each field alone, rejected payloads, and combinations
UpdatePool ==
    { BlankUpdate,
      [BlankUpdate EXCEPT !.title = PyStr(" New ")],
      [BlankUpdate EXCEPT !.title = PyStr("  ")],
      [BlankUpdate EXCEPT !.title = PyNone, !.price = PyInt(1)],
      [BlankUpdate EXCEPT !.category = PyStr("Spec ")],
      [BlankUpdate EXCEPT !.price = PyStr("7 000")],
      [BlankUpdate EXCEPT !.year = PyStr("1999")],
      [BlankUpdate EXCEPT !.year = PyInt(20250)],
      [BlankUpdate EXCEPT !.year = PyStr("n/a")],
      [BlankUpdate EXCEPT !.details = PyStr(" sold soon ")],
      [BlankUpdate EXCEPT !.location = PyNone],
      [BlankUpdate EXCEPT !.status = PyStr(" Archived ")],
      [BlankUpdate EXCEPT !.status = PyStr("sold")],
      [BlankUpdate EXCEPT !.status = PyStr("sold"), !.price = PyInt(9)],
      [BlankUpdate EXCEPT !.images = PyList(<<"n.jpg">>), !.image = PyStr("i.jpg")],
      [BlankUpdate EXCEPT !.images = PyList(<<>>), !.image = PyStr("i.jpg")],
      [BlankUpdate EXCEPT !.images = PyStr("n.jpg")] }

\* ids a WebApp request may name: those of the feed, and one that is not in it
RequestIds == {Items(feedFile)[i].id : i \in 1..Len(Items(feedFile))} \cup {"m9"}

----------------------------------------------------------------------------
(* The handlers.  `last` holds the outcome of the last request: what the   *)
(* handler replied, the mirror call it issued and, when the feed was       *)
(* saved, the request itself.                                              *)

NoCall == [op |-> "none"]

Refused(op, role, ad_id, reason) ==
    [op |-> op, ok |-> FALSE, reason |-> reason, mirror |-> "none", role |-> role,
     ad_id |-> ad_id]

\* len(feed["items"]) as the handler loaded it
Loaded == Len(Items(feedFile))

FeedInit ==
    /\ feedFile = NoFile
    /\ clock = 1
    /\ last = NoCall

\* no auto_map_columns call in progress
MapIdle ==
    /\ excel_columns = <<>>
    /\ target_fields = <<>>
    /\ keywords = <<>>
    /\ field_index = 0
    /\ mapping = <<>>
    /\ confidence = <<>>
    /\ used_excel_cols = {}
    /\ map_result = PyNone

\* no calculate_match_score call in progress
ScoreIdle ==
    /\ excel_col = ""
    /\ keywords_dict = PyNone
    /\ score = PyNone

\* no validate_mapping call in progress
ValidateIdle ==
    /\ vm_mapping = <<>>
    /\ vm_result = PyNone

\* the mirror is not configured
MirrorIdle == backend_sync = FALSE

\* no config.json yet, no call made on the template store
TemplateIdle ==
    /\ configFile = Absent
    /\ tpl_last = PyNone

\* no conversion called
CellIdle ==
    /\ cell = PyNone
    /\ cell_out = PyNone

\* no card prepared
CardIdle ==
    /\ row = PyNone
    /\ made_card = PyNone

\* no merge called
MergeIdle ==
    /\ df1 = <<>>
    /\ df2 = <<>>
    /\ merged = PyNone

\* no mutation split into steps
RaceIdle ==
    /\ workers = <<>>
    /\ save_order = <<>>

\* nobody has talked to the bot about an import
ChatIdle ==
    /\ parser_waiting_file = <<>>
    /\ action_log = <<>>
    /\ chat_last = PyNone

\* the mirror has no rows and has refused nothing
SyncIdle ==
    /\ ad_items = <<>>
    /\ mirror_failed = FALSE

\* everything but the feed is idle
RestIdle == MapIdle /\ ScoreIdle /\ ValidateIdle /\ TemplateIdle /\ CellIdle /\ CardIdle /\ MergeIdle /\ RaceIdle /\ ChatIdle /\ SyncIdle

Init == FeedInit /\ RestIdle /\ MirrorIdle

\* parse_document_handler reaching replace_excel_ads(cards)
ImportExcel(cards) ==
    LET r == replace_excel_ads(feedFile, cards, clock)
    IN  /\ feedFile' = r.file
        /\ last' = [op |-> "replace", ok |-> TRUE, reason |-> "", mirror |-> r.mirror,
                    loaded |-> Loaded, cards |-> cards, count |-> r.result]
        /\ clock' = clock + 1

\* handle_new_advertisement: the role check, then add_manual_ad_to_feed
NewAdvertisement(ad, user_id, role) ==
    IF role \notin AD_MANAGEMENT_ROLES
    THEN /\ last' = Refused("add", role, "", "denied")
         /\ clock' = clock + 1
         /\ UNCHANGED feedFile
    ELSE LET r == add_manual_ad_to_feed(feedFile, ad, user_id, clock)
         IN  /\ feedFile' = r.file
             /\ last' = [op |-> "add", ok |-> TRUE, reason |-> "", mirror |-> r.mirror,
                         loaded |-> Loaded, actor |-> user_id, role |-> role, ad |-> ad,
                         saved |-> r.result]
             /\ clock' = clock + 1

\* handle_update_advertisement: update_manual_ad_in_feed with the caller's role
UpdateAdvertisement(ad_id, ad_updates, user_id, role) ==
    LET r == update_manual_ad_in_feed(feedFile, ad_id, ad_updates, user_id, role, clock)
    IN  IF r.ok
        THEN /\ feedFile' = r.file
             /\ last' = [op |-> "update", ok |-> TRUE, reason |-> "", mirror |-> r.mirror,
                         loaded |-> Loaded, actor |-> user_id, role |-> role,
                         ad_id |-> ad_id, ad_updates |-> ad_updates]
             /\ clock' = clock + 1
        ELSE /\ feedFile' = r.file
             /\ last' = [Refused("update", role, ad_id, r.reason) EXCEPT !.mirror = r.mirror]
             /\ clock' = clock + 1

\* handle_delete_advertisement: delete_manual_ad_from_feed with the caller's role
DeleteAdvertisement(ad_id, user_id, role) ==
    LET r == delete_manual_ad_from_feed(feedFile, ad_id, user_id, role, clock)
    IN  IF r.ok
        THEN /\ feedFile' = r.file
             /\ last' = [op |-> "delete", ok |-> TRUE, reason |-> "", mirror |-> r.mirror,
                         loaded |-> Loaded, actor |-> user_id, role |-> role,
                         ad_id |-> ad_id]
             /\ clock' = clock + 1
        ELSE /\ feedFile' = r.file
             /\ last' = [Refused("delete", role, ad_id, r.reason) EXCEPT !.mirror = r.mirror]
             /\ clock' = clock + 1

Import ==
    /\ clock < MaxClock
    /\ \E cards \in CardLists : ImportExcel(cards)
    /\ UNCHANGED exceptFeed

Submit ==
    /\ clock < MaxClock
    /\ \E ad \in AdPool, u \in UserIds, role \in Roles : NewAdvertisement(ad, u, role)
    /\ UNCHANGED exceptFeed

Update ==
    /\ clock < MaxClock
    /\ \E ad_id \in RequestIds, p \in UpdatePool, u \in UserIds, role \in Roles :
          UpdateAdvertisement(ad_id, p, u, role)
    /\ UNCHANGED exceptFeed

Delete ==
    /\ clock < MaxClock
    /\ \E ad_id \in RequestIds, u \in UserIds, role \in Roles :
          DeleteAdvertisement(ad_id, u, role)
    /\ UNCHANGED exceptFeed

Next == Import \/ Submit \/ Update \/ Delete

Spec == Init /\ [][Next]_vars

\* imports and submissions alone, followed over one more request
ImportLong ==
    /\ clock < MaxImportClock
    /\ \E cards \in CardLists : ImportExcel(cards)
    /\ UNCHANGED exceptFeed

SubmitLong ==
    /\ clock < MaxImportClock
    /\ \E ad \in AdPool, u \in UserIds, role \in Roles : NewAdvertisement(ad, u, role)
    /\ UNCHANGED exceptFeed

NextImport == ImportLong \/ SubmitLong

SpecImport == Init /\ [][NextImport]_vars

----------------------------------------------------------------------------
(* The column mapper (src/column_mapper.py).                               *)

Max(S) == CHOOSE x \in S : \A y \in S : y <= x
Min(S) == CHOOSE x \in S : \A y \in S : x <= y

\* SequenceMatcher.find_longest_match over the whole of a and b: the longest common
\* block, of those the one starting earliest in a, of those the one starting earliest
\* in b (the autojunk heuristic needs 200 characters and never applies to a header)
find_longest_match(a, b) ==
    LET Common(i, j, k) == SubSeq(a, i, i + k - 1) = SubSeq(b, j, j + k - 1)
        Starts(k) == {ij \in (1..(Len(a) - k + 1)) \X (1..(Len(b) - k + 1)) :
                         Common(ij[1], ij[2], k)}
        sizes == {k \in 1..Min({Len(a), Len(b)}) : Starts(k) # {}}
    IN  IF sizes = {} THEN [i |-> 1, j |-> 1, size |-> 0]
        ELSE LET k == Max(sizes)
                 i == Min({ij[1] : ij \in Starts(k)})
                 j == Min({ij[2] : ij \in {x \in Starts(k) : x[1] = i}})
             IN  [i |-> i, j |-> j, size |-> k]

\* the total size of SequenceMatcher.get_matching_blocks: the longest block, then
\* the same to its left and to its right
RECURSIVE MatchingSize(_, _)
MatchingSize(a, b) ==
    IF a = "" \/ b = "" THEN 0
    ELSE LET blk == find_longest_match(a, b)
         IN  IF blk.size = 0 THEN 0
             ELSE blk.size
                  + MatchingSize(SubSeq(a, 1, blk.i - 1), SubSeq(b, 1, blk.j - 1))
                  + MatchingSize(SubSeq(a, blk.i + blk.size, Len(a)),
                                 SubSeq(b, blk.j + blk.size, Len(b)))

\* levenshtein_similarity(s1, s2) = SequenceMatcher(None, s1, s2).ratio(), the
\* fraction 2 * matches / (len(s1) + len(s2)), and 1 for two empty strings
levenshtein_similarity(s1, s2) ==
    IF Len(s1) + Len(s2) = 0 THEN [num |-> 1, den |-> 1]
    ELSE [num |-> 2 * MatchingSize(s1, s2), den |-> Len(s1) + Len(s2)]

\* similarity > 0.7
AboveFuzzyCutoff(similarity) == 10 * similarity.num > 7 * similarity.den

\* int(similarity * 50)
FuzzyScore(similarity) == (50 * similarity.num) \div similarity.den

\* normalize_column_name(name): str(name).lower().strip()
normalize_column_name(name) == Strip(Lower(PyToStr(name)))

\* keywords_dict.get("primary", []) and keywords_dict.get("synonyms", [])
KeywordList(v) == IF v = Absent THEN <<>> ELSE v.l

\* the keyword matches the header only when it lies inside the header
PartialOneWay(col, norm_keyword) == Contains(norm_keyword, col)

\* norm_keyword in excel_col or excel_col in norm_keyword
Partial(col, norm_keyword) == Contains(norm_keyword, col) \/ Contains(col, norm_keyword)

\* the loop of tier 5: best_score = max(best_score, int(similarity * 50)) for every
\* keyword whose similarity is above 0.7
RECURSIVE FuzzyLoop(_, _, _)
FuzzyLoop(col, keys, best_score) ==
    IF keys = <<>> THEN best_score
    ELSE LET similarity == levenshtein_similarity(col, normalize_column_name(PyStr(Head(keys))))
         IN  FuzzyLoop(col, Tail(keys),
                       IF AboveFuzzyCutoff(similarity)
                       THEN Max({best_score, FuzzyScore(similarity)})
                       ELSE best_score)

\* calculate_match_score(excel_col, keywords_dict), excel_col already normalised
calculate_match_score(col, kd) ==
    LET primary == KeywordList(kd.primary)
        synonyms == KeywordList(kd.synonyms)
        Norm(keys, i) == normalize_column_name(PyStr(keys[i]))
        tier2 == IF \E i \in 1..Len(primary) : Partial(col, Norm(primary, i))
                 THEN Max({0, 90}) ELSE 0
        tier3 == IF \E i \in 1..Len(synonyms) : col = Norm(synonyms, i)
                 THEN Max({tier2, 70}) ELSE tier2
        tier4 == IF \E i \in 1..Len(synonyms) : Partial(col, Norm(synonyms, i))
                 THEN Max({tier3, 60}) ELSE tier3
    IN  IF \E i \in 1..Len(primary) : col = Norm(primary, i) THEN 100
        ELSE IF tier4 = 0 THEN FuzzyLoop(col, primary \o synonyms, 0)
        ELSE tier4

\* Python dicts, kept as the sequence of their (key, value) pairs in insertion order
DictKeys(d) == {d[i][1] : i \in 1..Len(d)}

DictGet(d, k) == d[CHOOSE i \in 1..Len(d) : d[i][1] = k][2]

\* d[k] = v
DictSet(d, k, v) ==
    IF k \in DictKeys(d)
    THEN [i \in 1..Len(d) |-> IF d[i][1] = k THEN <<k, v>> ELSE d[i]]
    ELSE Append(d, <<k, v>>)

\* list(d.values())
DictValues(d) == [i \in 1..Len(d) |-> d[i][2]]

\* keywords.get(field, {})
EmptyKeywords == [primary |-> Absent, synonyms |-> Absent]

\* the score below which a match is not applied
MatchThreshold == 40

\* the inner loop of auto_map_columns without the test for consumed headers
RECURSIVE BestMatchOfferAll(_, _, _, _)
BestMatchOfferAll(cols, used, field_keywords, best) ==
    IF cols = <<>> THEN best
    ELSE LET col == Head(cols)
             col_score == calculate_match_score(normalize_column_name(col), field_keywords)
         IN  BestMatchOfferAll(Tail(cols), used, field_keywords,
                               IF col_score > best.best_score
                               THEN [best_match |-> col, best_score |-> col_score]
                               ELSE best)

\* the inner loop of auto_map_columns over excel_columns: best_match, best_score
RECURSIVE BestMatch(_, _, _, _)
BestMatch(cols, used, field_keywords, best) ==
    IF cols = <<>> THEN best
    ELSE LET col == Head(cols)
             col_score == calculate_match_score(normalize_column_name(col), field_keywords)
         IN  BestMatch(Tail(cols), used, field_keywords,
                       IF col \in used THEN best
                       ELSE IF col_score > best.best_score
                            THEN [best_match |-> col, best_score |-> col_score]
                            ELSE best)

\* one pass of `for field in target_fields`
MapField ==
    /\ map_result = PyNone
    /\ field_index < Len(target_fields)
    /\ LET field == target_fields[field_index + 1]
           field_keywords == GetDefault(keywords[field], EmptyKeywords)
           best == BestMatch(excel_columns, used_excel_cols, field_keywords,
                             [best_match |-> PyNone, best_score |-> 0])
       IN  IF field_keywords = EmptyKeywords
           THEN UNCHANGED <<mapping, confidence, used_excel_cols>>
           ELSE IF Truthy(best.best_match) /\ best.best_score >= MatchThreshold
                THEN /\ mapping' = DictSet(mapping, best.best_match, field)
                     /\ confidence' = DictSet(confidence, field, best.best_score)
                     /\ used_excel_cols' = used_excel_cols \cup {best.best_match}
                ELSE UNCHANGED <<mapping, confidence, used_excel_cols>>
    /\ field_index' = field_index + 1
    /\ UNCHANGED <<excel_columns, target_fields, keywords, map_result>>
    /\ UNCHANGED exceptMap

\* the end of auto_map_columns: the unmatched lists and the return
MapReturn ==
    /\ map_result = PyNone
    /\ field_index = Len(target_fields)
    /\ map_result' =
          [t |-> "result",
           unmatched_excel |->
               SelectSeq(excel_columns, LAMBDA col : col \notin DictKeys(mapping)),
           unmatched_target |->
               SelectSeq(target_fields, LAMBDA field : field \notin DictKeys(confidence))]
    /\ UNCHANGED <<excel_columns, target_fields, keywords, field_index, mapping,
                   confidence, used_excel_cols>>
    /\ UNCHANGED exceptMap

\* detect_duplicate_mappings that reports every mapped field
detect_duplicate_mappings_all(m) ==
    LET target_values == DictValues(m)
    IN  SelectSeq([i \in 1..Len(target_values) |->
                      IF \E j \in 1..(i - 1) : target_values[j] = target_values[i]
                      THEN "" ELSE target_values[i]],
                  LAMBDA field : field # "")

\* detect_duplicate_mappings(mapping): the fields that are the value of more than one
\* header, in the order of their first occurrence
detect_duplicate_mappings(m) ==
    LET target_values == DictValues(m)
        Count(field) == Cardinality({i \in 1..Len(target_values) : target_values[i] = field})
    IN  SelectSeq([i \in 1..Len(target_values) |->
                      IF \E j \in 1..(i - 1) : target_values[j] = target_values[i]
                      THEN "" ELSE target_values[i]],
                  LAMBDA field : field # "" /\ Count(field) > 1)

\* sequences over S of length 0..n
SeqsUpTo(S, n) == UNION {[1..k -> S] : k \in 0..n}

\* headers as pandas hands them over: text, and a numeric header cell
HeaderPool == {PyStr("Kod"), PyStr("KOD"), PyStr("kod 2"), PyStr("cena"), PyInt(0)}

FieldPool == {"code", "price", "year"}

\* two configurations of fuzzy_keywords; "year" has no keywords
KeywordConfigs ==
    { [code |-> [primary |-> PyList(<<"Kod">>), synonyms |-> PyList(<<"id">>)],
       price |-> [primary |-> PyList(<<"ceny">>), synonyms |-> PyList(<<"n10">>)],
       year |-> Absent],
      [code |-> [primary |-> PyList(<<"KOD ">>), synonyms |-> Absent],
       price |-> [primary |-> PyList(<<"Kod 2">>), synonyms |-> PyList(<<"cena">>)],
       year |-> EmptyKeywords] }

\* a call auto_map_columns(excel_columns, target_fields, keywords), before its loop
MapInit ==
    /\ excel_columns \in SeqsUpTo(HeaderPool, MaxColumns)
    /\ target_fields \in SeqsUpTo(FieldPool, MaxFields)
    /\ keywords \in KeywordConfigs
    /\ field_index = 0
    /\ mapping = <<>>
    /\ confidence = <<>>
    /\ used_excel_cols = {}
    /\ map_result = PyNone

NextMap == MapField \/ MapReturn

InitMap == FeedInit /\ MapInit /\ ScoreIdle /\ ValidateIdle /\ MirrorIdle /\ TemplateIdle /\ CellIdle /\ CardIdle /\ MergeIdle /\ RaceIdle /\ ChatIdle /\ SyncIdle

SpecMap == InitMap /\ [][NextMap]_vars

\* normalised headers: the strings over a and b of length 0..n
RECURSIVE Words(_)
Words(n) == IF n = 0 THEN {""} ELSE Words(n - 1) \cup {w \o c : w \in Words(n - 1), c \in {"a", "b"}}

KeywordPool == {"Ab ", "abab", "bba"}

\* a primary or synonyms entry: missing, or a list of keywords
KeywordLists == {Absent} \cup {PyList(l) : l \in SeqsUpTo(KeywordPool, MaxKeywords)}

\* a call calculate_match_score(excel_col, keywords_dict), before it runs
ScoreInit ==
    /\ excel_col \in Words(MaxHeaderLen)
    /\ keywords_dict \in [primary : KeywordLists, synonyms : KeywordLists]
    /\ score = PyNone

\* the call returns
Score ==
    /\ score = PyNone
    /\ score' = PyInt(calculate_match_score(excel_col, keywords_dict))
    /\ UNCHANGED <<excel_col, keywords_dict>>
    /\ UNCHANGED exceptScore

NextScore == Score

InitScore == FeedInit /\ MapIdle /\ ScoreInit /\ ValidateIdle /\ MirrorIdle /\ TemplateIdle /\ CellIdle /\ CardIdle /\ MergeIdle /\ RaceIdle /\ ChatIdle /\ SyncIdle

SpecScore == InitScore /\ [][NextScore]_vars

----------------------------------------------------------------------------
(* The mirror's permission gate (src/backend/core/views.py).               *)

\* normalize_role(role) of the mirror; the Cyrillic aliases are transliterated
normalize_role(role) ==
    LET normalized == Lower(Strip(IF role = "" THEN USER_ROLE_USER ELSE role))
    IN  IF normalized \in {"leasing", "leasing_company", "lizingovaya",
                           "lizingovaya kompaniya", "lizingovaya_kompaniya"}
        THEN USER_ROLE_LEASING_COMPANY
        ELSE IF normalized \in {"admin", "administrator"}
             THEN USER_ROLE_ADMIN
             ELSE USER_ROLE_USER

\* the author id the bot sends for an item (serialize_ad_for_backend) as the mirror
\* stores it (_prepare_ad_defaults): an int, or None for an item without author
author_telegram_id(ad_item) ==
    IF ad_item.author = Absent THEN PyNone ELSE ad_item.author.id

\* the mirror's gate without the owner comparison
can_actor_manage_ad_no_owner(actor_role, actor_telegram_id, author_tid) ==
    IF actor_role \in {USER_ROLE_ADMIN, USER_ROLE_LEASING_COMPANY}
    THEN [allowed |-> TRUE, reason |-> ""]
    ELSE [allowed |-> FALSE, reason |-> "insufficient permissions"]

\* _can_actor_manage_ad(actor_role, actor_telegram_id, ad_item)
can_actor_manage_ad(actor_role, actor_telegram_id, author_tid) ==
    IF actor_role = USER_ROLE_ADMIN THEN [allowed |-> TRUE, reason |-> ""]
    ELSE IF actor_role = USER_ROLE_LEASING_COMPANY
         THEN (IF author_tid # PyInt(actor_telegram_id)
               THEN [allowed |-> FALSE, reason |-> "leasing_company can modify only own ads"]
               ELSE [allowed |-> TRUE, reason |-> ""])
         ELSE [allowed |-> FALSE, reason |-> "insufficient permissions"]

\* the decision of update_ad_with_permissions / delete_ad_with_permissions for the
\* actor the bot names in its payload (_parse_actor normalises the role)
MirrorDecision(actor_user_id, actor_role, ad_item) ==
    can_actor_manage_ad(normalize_role(actor_role), actor_user_id,
                        author_telegram_id(ad_item)).allowed

----------------------------------------------------------------------------
(* The mirror calls of the feed mutations (src/bot.py, backend_request).   *)

\* what the network and the mirror can do to one request: a JSON reply, an empty
\* reply, a reply that is no JSON, an HTTP error status whose body can be read, an
\* HTTP error status whose body cannot be read (the connection drops or times out
\* inside exc.read()), a timeout, a refused connection
MirrorOutcomes ==
    {"json", "empty", "not_json", "http_error", "http_error_unreadable", "timeout",
     "connection_error"}

\* backend_request(method, path, payload): how many requests it sends, and whether
\* it returns or lets an exception escape
backend_request(enabled, path, outcome) ==
    IF ~enabled THEN [requests |-> 0, raised |-> FALSE, reply |-> "None"]
    ELSE CASE outcome = "json" -> [requests |-> 1, raised |-> FALSE, reply |-> "dict"]
           [] outcome = "empty" -> [requests |-> 1, raised |-> FALSE, reply |-> "{}"]
           [] outcome = "not_json" -> [requests |-> 1, raised |-> FALSE, reply |-> "raw"]
           [] outcome = "http_error" -> [requests |-> 1, raised |-> FALSE, reply |-> "None"]
           [] outcome = "http_error_unreadable" ->
                 [requests |-> 1, raised |-> TRUE, reply |-> "exception"]
           [] OTHER -> [requests |-> 1, raised |-> FALSE, reply |-> "None"]

\* a feed mutation that saved the file `file` and then called its sync_* helper for
\* `path` ("none": the helper is not reached, or returns before backend_request)
MirroredCall(op, ok, file, path, outcome) ==
    LET sync == IF path = "none" THEN [requests |-> 0, raised |-> FALSE, reply |-> "None"]
                ELSE backend_request(backend_sync, path, outcome)
    IN  /\ feedFile' = file
        /\ last' = [op |-> op, ok |-> ok, mirror |-> path, outcome |-> outcome,
                    requests |-> sync.requests, raised |-> sync.raised]
        /\ clock' = clock + 1
        /\ UNCHANGED backend_sync
        /\ UNCHANGED <<mapVars, scoreVars, validateVars, templateVars, cellVars, cardVars, mergeVars, raceVars, chatVars, syncVars>>

\* the outcomes to draw for a call: none when no request is sent
OutcomesFor(path) == IF path = "none" \/ ~backend_sync THEN {"none"} ELSE MirrorOutcomes

MirrorCards == {<<>>, <<CardKia>>}
MirrorAds == {ad \in AdPool : ad.id = PyStr("m1")}
MirrorUpdates == {BlankUpdate, [BlankUpdate EXCEPT !.price = PyStr("7 000")]}

MirroredImport ==
    /\ clock < MaxMirrorClock
    /\ \E cards \in MirrorCards :
          LET r == replace_excel_ads(feedFile, cards, clock)
          IN  \E outcome \in OutcomesFor(r.mirror) :
                 MirroredCall("replace", TRUE, r.file, r.mirror, outcome)

MirroredSubmit ==
    /\ clock < MaxMirrorClock
    /\ \E ad \in MirrorAds, u \in UserIds :
          LET r == add_manual_ad_to_feed(feedFile, ad, u, clock)
          IN  \E outcome \in OutcomesFor(r.mirror) :
                 MirroredCall("add", TRUE, r.file, r.mirror, outcome)

MirroredUpdate ==
    /\ clock < MaxMirrorClock
    /\ \E ad_id \in RequestIds, p \in MirrorUpdates, u \in UserIds,
          role \in {USER_ROLE_USER, USER_ROLE_ADMIN} :
          LET r == update_manual_ad_in_feed(feedFile, ad_id, p, u, role, clock)
          IN  \E outcome \in OutcomesFor(r.mirror) :
                 MirroredCall("update", r.ok, r.file, r.mirror, outcome)

MirroredDelete ==
    /\ clock < MaxMirrorClock
    /\ \E ad_id \in RequestIds, u \in UserIds, role \in {USER_ROLE_USER, USER_ROLE_ADMIN} :
          LET r == delete_manual_ad_from_feed(feedFile, ad_id, u, role, clock)
          IN  \E outcome \in OutcomesFor(r.mirror) :
                 MirroredCall("delete", r.ok, r.file, r.mirror, outcome)

NextMirror == MirroredImport \/ MirroredSubmit \/ MirroredUpdate \/ MirroredDelete

\* the bot starts with or without a configured mirror
MirrorInit == backend_sync \in BOOLEAN

InitMirror == FeedInit /\ RestIdle /\ MirrorInit

SpecMirror == InitMirror /\ [][NextMirror]_vars

----------------------------------------------------------------------------
(* validate_mapping (src/column_mapper.py).                                *)

\* the critical fields without the model
CriticalFieldsNoModel == <<"code", "brand", "price">>

\* critical_fields when the caller gives none
CriticalFields == <<"code", "brand", "model", "price">>

\* validate_mapping(mapping): (is_valid, missing_critical)
validate_mapping(m) ==
    LET mapped_fields == {DictValues(m)[i] : i \in 1..Len(m)}
        missing_critical == SelectSeq(CriticalFields, LAMBDA f : f \notin mapped_fields)
    IN  [t |-> "tuple", is_valid |-> Len(missing_critical) = 0,
         missing_critical |-> missing_critical]

\* the fields a mapping may assign
MappingFields == {"code", "brand", "model", "price", "year"}

\* the header of column i of the sheet
HeaderName(i) == "col" \o IntToStr(i)

\* mappings of the first k headers of a sheet to fields, k = 0..MaxMapping
MappingPool ==
    UNION {{[i \in 1..k |-> <<PyStr(HeaderName(i)), f[i]>>] : f \in [1..k -> MappingFields]} :
              k \in 0..MaxMapping}

\* a call validate_mapping(mapping), before it runs
ValidateInit ==
    /\ vm_mapping \in MappingPool
    /\ vm_result = PyNone

\* the call returns
Validate ==
    /\ vm_result = PyNone
    /\ vm_result' = validate_mapping(vm_mapping)
    /\ UNCHANGED vm_mapping
    /\ UNCHANGED exceptValidate

NextValidate == Validate

InitValidate == FeedInit /\ MapIdle /\ ScoreIdle /\ ValidateInit /\ MirrorIdle /\ TemplateIdle /\ CellIdle /\ CardIdle /\ MergeIdle /\ RaceIdle /\ ChatIdle /\ SyncIdle

SpecValidate == InitValidate /\ [][NextValidate]_vars

----------------------------------------------------------------------------
(* Claims about the feed.                                                  *)

FeedIds(file) == {Items(file)[i].id : i \in 1..Len(Items(file))}

HasId(file, ad_id) == ad_id \in FeedIds(file)

NonExcel(items) == SelectSeq(items, LAMBDA it : it.source_type # "excel")

Titled(cards) == SelectSeq(cards, LAMBDA c : Strip(c.title) # "")

\* C1: replace_excel_ads(cards) leaves the feed as the prior non-excel items,
\* unmodified and in the same order, followed by one new excel item per card with a
\* non-empty title in card order; no previously stored excel item remains.
C1_ReplaceByOrigin ==
    [][last'.op = "replace" =>
         LET prior == Items(feedFile)
             post == Items(feedFile')
             kept == NonExcel(prior)
             titled == Titled(last'.cards)
         IN  /\ Len(post) = Len(kept) + Len(titled)
             /\ SubSeq(post, 1, Len(kept)) = kept
             /\ Len(NonExcel(post)) = Len(kept)
             /\ last'.count = Len(titled)
             /\ \A k \in 1..Len(titled) :
                   LET item == post[Len(kept) + k]
                   IN  /\ item.source_type = "excel"
                       /\ item.title = Strip(titled[k].title)
                       /\ item.external_id = Strip(titled[k].code)
                       /\ item.createdAt = PyTime(clock)
             /\ \A i \in 1..Len(prior) :
                   prior[i].source_type = "excel" =>
                       \A j \in 1..Len(post) : post[j] # prior[i]
             /\ feedFile'.updated_at = PyTime(clock)]_vars

\* an import of three cards, one without title, into a feed that held one manual and
\* one excel item
C1_Witness ==
    /\ last.op = "replace"
    /\ last.loaded = 2
    /\ Len(last.cards) = 3
    /\ last.count = 2
    /\ Len(Items(feedFile)) = 3
    /\ Items(feedFile)[1].source_type = "manual"
    /\ Items(feedFile)[2].source_type = "excel"

\* C2: no two items of the feed have the same id.
C2_UniqueIds ==
    \A i, j \in 1..Len(Items(feedFile)) :
        i # j => Items(feedFile)[i].id # Items(feedFile)[j].id

\* the actors the gate is asked about: the three roles and an unknown one
GateRoles == Roles \cup {"guest"}

\* C3: the gate allows exactly the admin and the leasing company that authored the
\* item; a leasing company is refused with the "only own items" reason on any other
\* item (an excel item has no author), every other role with "insufficient
\* permissions".
C3_PermissionGate ==
    \A i \in 1..Len(Items(feedFile)), u \in UserIds, role \in GateRoles :
        LET item == Items(feedFile)[i]
            owns == item.author # Absent /\ item.author.id = PyInt(u)
            gate == can_user_edit_or_delete_ad(u, role, item)
        IN  /\ gate.allowed <=>
                  (role = USER_ROLE_ADMIN \/ (role = USER_ROLE_LEASING_COMPANY /\ owns))
            /\ (role = USER_ROLE_LEASING_COMPANY /\ ~owns) =>
                  (~gate.allowed /\ gate.reason = ReasonOnlyOwn)
            /\ (role = USER_ROLE_LEASING_COMPANY /\ item.source_type = "excel") =>
                  (~gate.allowed /\ gate.reason = ReasonOnlyOwn)
            /\ role \notin {USER_ROLE_ADMIN, USER_ROLE_LEASING_COMPANY} =>
                  (~gate.allowed /\ gate.reason = ReasonInsufficient)

\* a leasing company was refused on an item of the feed, which holds an excel item
\* and a manual one
C3_Witness ==
    /\ last.op \in {"update", "delete"}
    /\ ~last.ok
    /\ last.reason = ReasonOnlyOwn
    /\ \E i \in 1..Len(Items(feedFile)) : Items(feedFile)[i].source_type = "excel"

\* C4: a refused update or delete leaves the persisted feed as it was (items and
\* updated_at) and issues no mirror call; an update by an actor of role "user" on an
\* existing item is refused with the "insufficient permissions" reason.
C4_RejectedNoEffect ==
    [][/\ (last'.op \in {"update", "delete"} /\ ~last'.ok) =>
              (feedFile' = feedFile /\ last'.mirror = "none")
       /\ (last'.op = "update" /\ last'.role = USER_ROLE_USER
               /\ HasId(feedFile, last'.ad_id)) =>
              (~last'.ok /\ last'.reason = ReasonInsufficient /\ feedFile' = feedFile)
      ]_vars

\* an update of an existing item was refused for its empty title
C4_Witness ==
    /\ last.op = "update"
    /\ ~last.ok
    /\ last.reason = ReasonEmptyTitle
    /\ HasId(feedFile, last.ad_id)

\* C5: no request of a leasing company changes or removes a manual item authored by
\* somebody else.
C5_OnlyGatedMutation ==
    [][(last'.op \in {"add", "update", "delete"} /\ last'.ok
            /\ last'.role = USER_ROLE_LEASING_COMPANY) =>
         \A i \in 1..Len(Items(feedFile)) :
            LET item == Items(feedFile)[i]
            IN  (item.source_type = "manual" /\ item.author.id # PyInt(last'.actor)) =>
                    \E j \in 1..Len(Items(feedFile')) : Items(feedFile')[j] = item
      ]_vars

\* C6: after add_manual_ad_to_feed exactly one item carries the submitted id, it is
\* the last item of the feed and holds the data of this submission; the other items
\* are the prior items with another id, in their order.
C6_Upsert ==
    [][(last'.op = "add" /\ last'.ok) =>
         LET prior == Items(feedFile)
             post == Items(feedFile')
             saved == last'.saved
             ad == last'.ad
         IN  /\ Len(post) >= 1
             /\ post[Len(post)] = saved
             /\ Cardinality({i \in 1..Len(post) : post[i].id = saved.id}) = 1
             /\ Truthy(ad.id) => saved.id = PyToStr(ad.id)
             /\ saved.source_type = "manual"
             /\ saved.author = [id |-> PyInt(last'.actor)]
             /\ saved.title = Strip(PyToStr(GetDefault(ad.title, PyStr(""))))
             /\ saved.price = parse_price_to_int(Get(ad.price))
             /\ SubSeq(post, 1, Len(post) - 1)
                    = SelectSeq(prior, LAMBDA it : it.id # saved.id)
      ]_vars

\* the second submission with the id "m1" replaced the item of the first
C6_Witness ==
    /\ last.op = "add"
    /\ last.ok
    /\ last.ad.id = PyStr("m1")
    /\ last.loaded = 1
    /\ Len(Items(feedFile)) = 1
    /\ Items(feedFile)[1].title = "Uaz 2"
    /\ Items(feedFile)[1].createdAt = PyTime(2)

\* whether the payload names the field
Named(ad_updates, f) ==
    IF f = "image" THEN ad_updates.image # Absent \/ ad_updates.images # Absent
    ELSE ad_updates[f] # Absent

\* C7: a successful update changes, in the item it names, only the fields of the
\* payload and the updatedAt stamp; its id, source_type, external_id, createdAt,
\* author and position, and every other item, stay as they were.
C7_UpdateFrame ==
    [][(last'.op = "update" /\ last'.ok) =>
         LET prior == Items(feedFile)
             post == Items(feedFile')
             index == CHOOSE i \in 1..Len(prior) :
                         /\ prior[i].id = last'.ad_id
                         /\ \A j \in 1..(i - 1) : prior[j].id # last'.ad_id
         IN  /\ Len(post) = Len(prior)
             /\ \A j \in 1..Len(prior) : j # index => post[j] = prior[j]
             /\ \A f \in {"id", "source_type", "external_id", "createdAt", "author"} :
                   post[index][f] = prior[index][f]
             /\ \A f \in UpdatableFields :
                   ~Named(last'.ad_updates, f) => post[index][f] = prior[index][f]
             /\ post[index].updatedAt = PyTime(clock)
      ]_vars

\* an update that does not name the price, in a feed of several items
C7_Witness ==
    /\ last.op = "update"
    /\ last.ok
    /\ last.ad_updates.price = Absent
    /\ last.ad_updates.status # Absent
    /\ Len(Items(feedFile)) >= 2

----------------------------------------------------------------------------
(* Claims about the column mapper.                                         *)

\* no header is the key of two entries and no field the value of two
OneToOne(m) ==
    \A i, j \in 1..Len(m) : i # j => (m[i][1] # m[j][1] /\ m[i][2] # m[j][2])

DistinctFields == \A i, j \in 1..Len(target_fields) : i # j => target_fields[i] # target_fields[j]

\* C8: for any header list and any target field list, the mapping built by
\* auto_map_columns is one-to-one and detect_duplicate_mappings finds nothing in it.
C8_OneToOne ==
    /\ OneToOne(mapping)
    /\ detect_duplicate_mappings(mapping) = <<>>

\* C8, for target field lists that name no field twice: the mapping is one-to-one
\* and detect_duplicate_mappings finds nothing in it.
C8_OneToOneDistinctFields ==
    DistinctFields => (OneToOne(mapping) /\ detect_duplicate_mappings(mapping) = <<>>)

\* a returned mapping of two headers to two different fields
C8_Witness ==
    /\ map_result # PyNone
    /\ DistinctFields
    /\ Len(mapping) = 2
    /\ Len(target_fields) = 2

\* the highest score of the headers not consumed yet, 0 when there is none
HighestAvailable(field_keywords) ==
    Max({0} \cup {calculate_match_score(normalize_column_name(excel_columns[i]), field_keywords) :
                    i \in {k \in 1..Len(excel_columns) : excel_columns[k] \notin used_excel_cols}})

\* C9: when a target field is processed it enters the mapping if and only if the
\* highest score among the headers not consumed so far is at least 40, and its
\* recorded confidence is that score; at the return every confidence lies in 40..100
\* and every field without a confidence is listed in unmatched_target.
C9_MappedIffScored ==
    [][/\ field_index' = field_index + 1 =>
            LET field == target_fields[field_index + 1]
                highest == HighestAvailable(GetDefault(keywords[field], EmptyKeywords))
                entered == /\ Len(mapping') = Len(mapping) + 1
                           /\ mapping'[Len(mapping')][2] = field
            IN  /\ entered <=> highest >= 40
                /\ entered => DictGet(confidence', field) = highest
                /\ ~entered => mapping' = mapping
       /\ map_result' # PyNone =>
            /\ \A i \in 1..Len(confidence') : confidence'[i][2] \in 40..100
            /\ \A i \in 1..Len(target_fields) :
                  target_fields[i] \notin DictKeys(confidence') =>
                      \E j \in 1..Len(map_result'.unmatched_target) :
                          map_result'.unmatched_target[j] = target_fields[i]
      ]_vars

\* the keywords of a list, normalised
NormalisedKeywords(v) ==
    {normalize_column_name(PyStr(KeywordList(v)[i])) : i \in 1..Len(KeywordList(v))}

\* the tiered reference score of a normalised header
ReferenceScore(header, kd) ==
    LET P == NormalisedKeywords(kd.primary)
        S == NormalisedKeywords(kd.synonyms)
        Inside(k) == Contains(k, header) \/ Contains(header, k)
        matched == (IF \E k \in P : Inside(k) THEN {90} ELSE {})
                   \cup (IF header \in S THEN {70} ELSE {})
                   \cup (IF \E k \in S : Inside(k) THEN {60} ELSE {})
        close == {k \in P \cup S : AboveFuzzyCutoff(levenshtein_similarity(header, k))}
    IN  CASE header \in P -> 100
          [] header \notin P /\ matched # {} -> Max(matched)
          [] header \notin P /\ matched = {} /\ close # {} ->
                Max({FuzzyScore(levenshtein_similarity(header, k)) : k \in close})
          [] OTHER -> 0

AssignedFields(m) == {m[i][2] : i \in 1..Len(m)}

\* C11: validate_mapping returns a result (it does not raise); is_valid is false
\* exactly when one of code, brand, model, price is assigned to no header, and the
\* returned list holds exactly the missing ones of these four, each once.
C11_ValidateMapping ==
    vm_result # PyNone =>
        LET missing == {"code", "brand", "model", "price"} \ AssignedFields(vm_mapping)
            listed == vm_result.missing_critical
        IN  /\ vm_result.t = "tuple"
            /\ vm_result.is_valid <=> missing = {}
            /\ {listed[i] : i \in 1..Len(listed)} = missing
            /\ Len(listed) = Cardinality(missing)

\* a mapping that assigns the four critical fields was found valid
C11_Witness ==
    /\ vm_result # PyNone
    /\ vm_result.is_valid
    /\ Len(vm_mapping) = 4

\* C12: for every item of the feed, every actor id and each of the roles user,
\* leasing_company and admin, the local gate and the mirror's gate take the same
\* decision; update and delete consult the same two gates.
C12_GatesAgree ==
    \A i \in 1..Len(Items(feedFile)), u \in UserIds, role \in Roles :
        LET item == Items(feedFile)[i]
        IN  can_user_edit_or_delete_ad(u, role, item).allowed
                <=> MirrorDecision(u, role, item)

\* a leasing company was refused the delete of an item that another actor authored
C12_Witness ==
    /\ last.op = "delete"
    /\ ~last.ok
    /\ last.role = USER_ROLE_LEASING_COMPANY
    /\ last.reason = ReasonOnlyOwn
    /\ \E i \in 1..Len(Items(feedFile)) :
          /\ Items(feedFile)[i].id = last.ad_id
          /\ Items(feedFile)[i].author # Absent

\* C13: whatever happens to the mirror call of a feed mutation, the mutation has
\* saved the feed and returns without raising, and it has sent at most one request.
C13_MirrorFailureSwallowed ==
    [][(last'.op # "none" /\ last'.mirror # "none") =>
          /\ feedFile'.updated_at = PyTime(clock)
          /\ ~last'.raised
          /\ last'.requests <= 1
      ]_vars

----------------------------------------------------------------------------
(* The template store (src/config_manager.py) and the two imports that     *)
(* consult it: the chat import (src/bot.py) and the GUI import              *)
(* (src/parser.py).  config.json is a JSON document; json.dump writes every *)
(* dict key as text, and json.load keeps the last value of a repeated key.  *)

\* a Python dict as a value
PyDict(d) == [t |-> "dict", d |-> d]

\* a config.json that is not JSON
Malformed == [t |-> "malformed"]

\* a config.json holding `file` that cannot be read or parsed when it is opened
Unreadable(file) == [t |-> "malformed", was |-> file]

\* fuzzy_keywords without any field
NoKeywords == [code |-> Absent, price |-> Absent, year |-> Absent]

\* get_default_config()
get_default_config ==
    [t |-> "config", version |-> "1.0", fuzzy_keywords |-> NoKeywords, mappings |-> <<>>]

\* the key json.dump writes for a dict key
JsonKey(k) ==
    CASE k.t = "int" -> PyStr(IntToStr(k.i))
      [] k.t = "none" -> PyStr("null")
      [] OTHER -> k

\* json.dump of one mapping: the pairs as they stand in the file
JsonDumpMapping(m) == [i \in 1..Len(m) |-> <<JsonKey(m[i][1]), m[i][2]>>]

\* json.load of one mapping: a repeated key keeps its first place and its last value
RECURSIVE JsonLoadMapping(_, _)
JsonLoadMapping(pairs, d) ==
    IF pairs = <<>> THEN d
    ELSE JsonLoadMapping(Tail(pairs), DictSet(d, Head(pairs)[1], Head(pairs)[2]))

\* load_config(): the default configuration when config.json is missing or unreadable
load_config(file) ==
    IF file.t \in {"absent", "malformed"} THEN get_default_config
    ELSE [t |-> "config", version |-> file.version,
          fuzzy_keywords |-> file.fuzzy_keywords,
          mappings |-> [i \in 1..Len(file.mappings) |->
                           <<file.mappings[i][1],
                             JsonLoadMapping(file.mappings[i][2], <<>>)>>]]

\* save_config(config): the new content of config.json
save_config(config) ==
    [t |-> "json", version |-> config.version,
     fuzzy_keywords |-> config.fuzzy_keywords,
     mappings |-> [i \in 1..Len(config.mappings) |->
                      <<config.mappings[i][1], JsonDumpMapping(config.mappings[i][2])>>]]

\* del d[k]
DictDel(d, k) == SelectSeq(d, LAMBDA pair : pair[1] # k)

\* add_mapping_template(name, mapping): the file written and the value returned
add_mapping_template(file, name, m) ==
    LET config == load_config(file)
    IN  [file |-> save_config([config EXCEPT !.mappings = DictSet(@, name, m)]),
         ret |-> TRUE]

\* get_mapping_template(name)
get_mapping_template(file, name) ==
    LET mappings == load_config(file).mappings
    IN  IF name \in DictKeys(mappings) THEN PyDict(DictGet(mappings, name)) ELSE PyNone

\* list_mapping_templates()
list_mapping_templates(file) ==
    LET mappings == load_config(file).mappings
    IN  [i \in 1..Len(mappings) |-> mappings[i][1]]

\* delete_mapping_template(name): the file afterwards and the value returned
delete_mapping_template(file, name) ==
    LET config == load_config(file)
    IN  IF name \in DictKeys(config.mappings)
        THEN [file |-> save_config([config EXCEPT !.mappings = DictDel(@, name)]),
              ret |-> TRUE]
        ELSE [file |-> file, ret |-> FALSE]

\* list(config["fuzzy_keywords"].keys())
KeywordFields(kw) ==
    SelectSeq(<<"code", "brand", "model", "price", "year">>,
              LAMBDA field : field \in DOMAIN kw /\ kw[field] # Absent)

\* auto_map_columns(excel_columns, target_fields, keywords)["mapping"]: the loop over
\* the target fields from field i on, with the mapping and the used headers so far
RECURSIVE AutoMapFrom(_, _, _, _, _, _)
AutoMapFrom(cols, fields, kw, i, m, used) ==
    IF i > Len(fields) THEN m
    ELSE LET field == fields[i]
             field_keywords == GetDefault(kw[field], EmptyKeywords)
             best == BestMatch(cols, used, field_keywords,
                               [best_match |-> PyNone, best_score |-> 0])
         IN  IF field_keywords # EmptyKeywords /\ Truthy(best.best_match)
                /\ best.best_score >= MatchThreshold
             THEN AutoMapFrom(cols, fields, kw, i + 1,
                              DictSet(m, best.best_match, field),
                              used \cup {best.best_match})
             ELSE AutoMapFrom(cols, fields, kw, i + 1, m, used)

auto_map_columns(cols, fields, kw) == AutoMapFrom(cols, fields, kw, 1, <<>>, {})

\* the headers of a template that the sheet does not have, in template order
MissingHeaders(saved, cols) ==
    SelectSeq([i \in 1..Len(saved) |-> saved[i][1]],
              LAMBDA col : \A j \in 1..Len(cols) : cols[j] # col)

\* the mapping step of parse_document_handler for an uploaded file
ChatMapping(file, stem, cols) ==
    LET saved == get_mapping_template(file, stem)
        kw == load_config(file).fuzzy_keywords
        auto == auto_map_columns(cols, KeywordFields(kw), kw)
    IN  IF saved # PyNone /\ saved.d # <<>>
        THEN [mapping_source |-> "template", mapping |-> PyDict(saved.d), raised |-> FALSE]
        ELSE [mapping_source |-> "auto", mapping |-> PyDict(auto),
              raised |-> ~validate_mapping(auto).is_valid]

\* the mapping step of ParserGUI._on_generate; use_saved is the answer to the
\* question whether to use the template, shown is what the mapping dialog returns
GuiMapping(file, stem, cols, use_saved, shown) ==
    LET saved == get_mapping_template(file, stem)
    IN  IF saved # PyNone /\ saved.d # <<>> /\ use_saved
           /\ MissingHeaders(saved.d, cols) = <<>>
        THEN [mapping_source |-> "template", mapping |-> saved, raised |-> FALSE]
        ELSE [mapping_source |-> IF shown = PyNone THEN "cancelled" ELSE "auto",
              mapping |-> shown, raised |-> FALSE]

\* template names: the stems of the uploaded files
TemplateNames == {"stock", "sale"}

\* the mappings saved as templates
TemplatePool ==
    { <<>>,
      << <<PyStr("Kod"), "code">> >>,
      << <<PyStr("Kod"), "code">>, <<PyStr("cena"), "price">> >>,
      << <<PyInt(0), "price">> >> }

\* the header rows of the imported sheets
SheetPool ==
    { <<PyStr("Kod")>>, <<PyStr("cena")>>, <<PyStr("Kod"), PyStr("cena")>>,
      <<PyInt(0)>>, <<PyStr("cena"), PyInt(0), PyStr("Kod")>> }

\* what the mapping dialog can return for a proposed mapping: None when cancelled,
\* the proposal, or a mapping the user put together
DialogResults(auto) ==
    {PyNone, PyDict(auto), PyDict(<< <<PyStr("cena"), "price">> >>)}

\* a config.json somebody wrote by hand
ConfigWithKeywords ==
    [t |-> "json", version |-> "1.0",
     fuzzy_keywords |-> [code |-> [primary |-> PyList(<<"Kod">>), synonyms |-> PyList(<<"id">>)],
                         price |-> [primary |-> PyList(<<"ceny">>), synonyms |-> PyList(<<"cena">>)],
                         year |-> Absent],
     mappings |-> <<>>]

\* a config.json with keywords and the template "stock"
ConfigWithTemplate ==
    [ConfigWithKeywords EXCEPT !.mappings = << <<"stock", << <<PyStr("Kod"), "code">> >> >> >>]

TemplateInit ==
    /\ configFile \in {Absent, Malformed, ConfigWithKeywords, Unreadable(ConfigWithTemplate)}
    /\ tpl_last = PyNone

AddTemplate ==
    \E name \in TemplateNames, m \in TemplatePool :
        LET r == add_mapping_template(configFile, name, m)
        IN  /\ configFile' = r.file
            /\ tpl_last' = [op |-> "add", name |-> name, arg |-> PyDict(m), ret |-> r.ret]
            /\ UNCHANGED exceptTemplates

GetTemplate ==
    \E name \in TemplateNames :
        /\ tpl_last' = [op |-> "get", name |-> name,
                        ret |-> get_mapping_template(configFile, name)]
        /\ UNCHANGED configFile
        /\ UNCHANGED exceptTemplates

ListTemplates ==
    /\ tpl_last' = [op |-> "list", ret |-> list_mapping_templates(configFile)]
    /\ UNCHANGED configFile
    /\ UNCHANGED exceptTemplates

DeleteTemplate ==
    \E name \in TemplateNames :
        LET r == delete_mapping_template(configFile, name)
        IN  /\ configFile' = r.file
            /\ tpl_last' = [op |-> "delete", name |-> name, ret |-> r.ret]
            /\ UNCHANGED exceptTemplates

ChatImport ==
    \E stem \in TemplateNames, cols \in SheetPool :
        /\ tpl_last' = [op |-> "chat_import", name |-> stem, headers |-> cols,
                        ret |-> ChatMapping(configFile, stem, cols)]
        /\ UNCHANGED configFile
        /\ UNCHANGED exceptTemplates

GuiImport ==
    \E stem \in TemplateNames, cols \in SheetPool, use_saved \in BOOLEAN :
        LET kw == load_config(configFile).fuzzy_keywords
            auto == auto_map_columns(cols, KeywordFields(kw), kw)
        IN  \E shown \in DialogResults(auto) :
                /\ tpl_last' = [op |-> "gui_import", name |-> stem, headers |-> cols,
                                ret |-> GuiMapping(configFile, stem, cols, use_saved, shown)]
                /\ UNCHANGED configFile
                /\ UNCHANGED exceptTemplates

NextTemplates ==
    AddTemplate \/ GetTemplate \/ ListTemplates \/ DeleteTemplate \/ ChatImport \/ GuiImport

InitTemplates == FeedInit /\ MapIdle /\ ScoreIdle /\ ValidateIdle /\ MirrorIdle /\ TemplateInit /\ CellIdle /\ CardIdle /\ MergeIdle /\ RaceIdle /\ ChatIdle /\ SyncIdle

SpecTemplates == InitTemplates /\ [][NextTemplates]_vars

----------------------------------------------------------------------------
(* Claims about the template store and the imports.                        *)

\* the last call was an import, by chat or by the GUI
Imported == tpl_last # PyNone /\ tpl_last.op \in {"chat_import", "gui_import"}

\* the template stored under the name of the imported file, None without one
SavedFor == get_mapping_template(configFile, tpl_last.name)

C14_GuiOnly ==
    (Imported /\ tpl_last.op = "gui_import") =>
        /\ tpl_last.ret.mapping_source = "template" =>
               /\ tpl_last.ret.mapping = SavedFor
               /\ MissingHeaders(SavedFor.d, tpl_last.headers) = <<>>
        /\ (SavedFor # PyNone /\ MissingHeaders(SavedFor.d, tpl_last.headers) # <<>>) =>
               tpl_last.ret.mapping_source # "template"

\* the names under which a template is stored
StoredNames(file) == {name \in TemplateNames : get_mapping_template(file, name) # PyNone}

\* every other name keeps its template over the step
OthersKept(name) ==
    \A other \in TemplateNames \ {name} :
        get_mapping_template(configFile', other) = get_mapping_template(configFile, other)

\* a step of the store taken as a step of a key-value map; text_only leaves out the
\* adds of a mapping with a header that is not text
KeyValueStep(text_only) ==
    /\ (tpl_last'.op = "add"
        /\ (text_only => \A i \in 1..Len(tpl_last'.arg.d) : tpl_last'.arg.d[i][1].t = "str")) =>
           /\ tpl_last'.ret = TRUE
           /\ get_mapping_template(configFile', tpl_last'.name) = tpl_last'.arg
           /\ OthersKept(tpl_last'.name)
    /\ tpl_last'.op = "delete" =>
           /\ tpl_last'.ret = (tpl_last'.name \in StoredNames(configFile))
           /\ tpl_last'.name \notin StoredNames(configFile')
           /\ OthersKept(tpl_last'.name)
           /\ ~tpl_last'.ret => configFile' = configFile
    /\ tpl_last'.op = "get" =>
           /\ tpl_last'.ret = get_mapping_template(configFile, tpl_last'.name)
           /\ configFile' = configFile
    /\ tpl_last'.op = "list" =>
           /\ {tpl_last'.ret[i] : i \in 1..Len(tpl_last'.ret)} = StoredNames(configFile)
           /\ Len(tpl_last'.ret) = Cardinality(StoredNames(configFile))
           /\ configFile' = configFile

\* C15: over any sequence of calls the template store is a key-value map: nothing is
\* stored at first, add_mapping_template(name, m) makes get_mapping_template(name)
\* return m and touches no other name, delete_mapping_template(name) returns true
\* exactly when the name was stored, removes it, and writes nothing when it returns
\* false, and list_mapping_templates returns exactly the stored names.
C15_KeyValueStore ==
    /\ StoredNames(configFile) = {}
    /\ [][KeyValueStep(FALSE)]_vars

\* C15 for mappings whose headers are all text
C15_TextHeaders ==
    /\ StoredNames(configFile) = {}
    /\ [][KeyValueStep(TRUE)]_vars

----------------------------------------------------------------------------
(* The cell conversions of the parser (src/parser.py).  A float is kept in  *)
(* thousandths: PyFloat(2015900) is 2015.9.  Text is read as float() reads  *)
(* decimal notation, "inf" and "nan"; the pools hold no exponent and no     *)
(* underscore.  The rouble sign of the source is written RUB.               *)

PyFloat(n) == [t |-> "float", m |-> n]
PyInf(negative) == [t |-> "inf", neg |-> negative]
PyNaN == [t |-> "nan"]

\* what float() and int() raise
ValueError == [t |-> "raise", exc |-> "ValueError"]
TypeError == [t |-> "raise", exc |-> "TypeError"]
OverflowError == [t |-> "raise", exc |-> "OverflowError"]

\* pd.isna(value) of a scalar
isna(v) == v.t \in {"absent", "none", "nan"}

AllDigits(s) == s # "" /\ \A i \in 1..Len(s) : IsIn(Char(s, i), DigitChars)

\* the value of an unsigned decimal numeral, in thousandths
ParseDecimal(s) ==
    LET dots == {i \in 1..Len(s) : Char(s, i) = "."}
    IN  IF dots = {} THEN (IF AllDigits(s) THEN PyFloat(1000 * DigitsToInt(s)) ELSE ValueError)
        ELSE IF Cardinality(dots) > 1 THEN ValueError
        ELSE LET d == CHOOSE i \in dots : TRUE
                 whole == SubSeq(s, 1, d - 1)
                 frac == SubSeq(s, d + 1, Len(s))
             IN  IF (whole = "" /\ frac = "")
                    \/ ~(whole = "" \/ AllDigits(whole))
                    \/ ~(frac = "" \/ AllDigits(frac))
                 THEN ValueError
                 ELSE PyFloat(1000 * DigitsToInt(whole) + DigitsToInt(Prefix(frac \o "000", 3)))

\* float(text)
ParseFloat(s) ==
    LET stripped == Strip(s)
        signed == stripped # "" /\ Head(stripped) \in {"+", "-"}
        negative == stripped # "" /\ Head(stripped) = "-"
        body == Lower(IF signed THEN Tail(stripped) ELSE stripped)
        magnitude == ParseDecimal(body)
    IN  IF body \in {"inf", "infinity"} THEN PyInf(negative)
        ELSE IF body = "nan" THEN PyNaN
        ELSE IF magnitude.t = "float" /\ negative THEN PyFloat(0 - magnitude.m)
        ELSE magnitude

\* float(value)
ToFloat(v) ==
    CASE v.t = "int" -> PyFloat(1000 * v.i)
      [] v.t \in {"float", "inf", "nan"} -> v
      [] v.t = "str" -> ParseFloat(v.s)
      [] OTHER -> TypeError

\* int(x) of a float: the fraction is cut off; infinity and NaN raise
ToInt(f) ==
    CASE f.t = "float" ->
             PyInt(IF f.m >= 0 THEN f.m \div 1000 ELSE 0 - ((0 - f.m) \div 1000))
      [] f.t = "inf" -> OverflowError
      [] f.t = "nan" -> ValueError
      [] OTHER -> f

\* int(float(value))
IntOfFloat(v) == ToInt(ToFloat(v))

\* the outcome of a call: the value returned, or the exception that leaves it
Returns(v) == [ret |-> v, raised |-> ""]
Raises(e) == [ret |-> PyNone, raised |-> e.exc]

\* safe_convert_year(value)
safe_convert_year(value) ==
    LET year == IntOfFloat(value)
    IN  IF isna(value) THEN Returns(PyNone)
        ELSE IF year.t = "raise"
             THEN (IF year.exc \in {"ValueError", "TypeError"}
                   THEN Returns(PyNone) ELSE Raises(year))
        ELSE IF 1900 <= year.i /\ year.i <= 2100 THEN Returns(PyStr(IntToStr(year.i)))
        ELSE Returns(PyNone)

\* f"{v:,}".replace(",", " ") of a natural number
RECURSIVE GroupThousands(_)
GroupThousands(n) ==
    IF n < 1000 THEN IntToStr(n)
    ELSE LET low == n % 1000
         IN  GroupThousands(n \div 1000) \o " "
             \o (IF low < 10 THEN "00" ELSE IF low < 100 THEN "0" ELSE "") \o IntToStr(low)

\* f"{v:,}".replace(",", " ") of an integer
Grouped(n) == IF n < 0 THEN "-" \o GroupThousands(0 - n) ELSE GroupThousands(n)

PriceOnRequest == "Cena po zaprosu"
CurrencySuffix == " RUB"

\* format_price(value)
format_price(value) ==
    LET v == IntOfFloat(value)
    IN  IF isna(value) \/ value = PyStr("") THEN Returns(PriceOnRequest)
        ELSE IF v.t = "raise"
             THEN (IF v.exc \in {"ValueError", "TypeError"}
                   THEN Returns(PriceOnRequest) ELSE Raises(v))
        ELSE Returns(Grouped(v.i) \o CurrencySuffix)

\* the price replace_excel_ads stores for a row price: format_price makes the card's
\* price text in prepare_cards, _parse_price_to_int reads the digits of that text
stored_price(value) ==
    LET text == format_price(value)
    IN  IF text.raised # "" THEN text
        ELSE Returns(PyInt(parse_price_to_int(PyStr(text.ret))))

\* the cells of a sheet: blank, numbers, numeric text, other text, infinite values
CellPool ==
    {PyNone, PyNaN, PyInf(FALSE), PyInf(TRUE)}
    \cup {PyInt(n) : n \in {0, 1, 999, 1899, 1900, 2015, 2100, 2101, 1500000, 0 - 1500}}
    \cup {PyFloat(n) : n \in {0, 500, 1899990, 1900000, 2015900, 2100500, 2101000,
                              1500000900, 0 - 500, 0 - 2015000}}
    \cup {PyStr(x) : x \in {"", " ", "0", "2015", " 2015 ", "2015.9", "1899.99", "2100.5",
                            "2101", "1500000", "-0.5", "+2100", ".5", "7.", "abc", "12a",
                            "2015,5", "1.2.3", "nan", "inf", "-Infinity", "."}}

CellInit ==
    /\ cell \in CellPool
    /\ cell_out = PyNone

ConvertYear ==
    /\ cell_out' = [op |-> "safe_convert_year", out |-> safe_convert_year(cell)]
    /\ UNCHANGED cell
    /\ UNCHANGED exceptCells

FormatPrice ==
    /\ cell_out' = [op |-> "format_price", out |-> format_price(cell)]
    /\ UNCHANGED cell
    /\ UNCHANGED exceptCells

StorePrice ==
    /\ cell_out' = [op |-> "stored_price", out |-> stored_price(cell)]
    /\ UNCHANGED cell
    /\ UNCHANGED exceptCells

NextCells == ConvertYear \/ FormatPrice \/ StorePrice

InitCells ==
    FeedInit /\ MapIdle /\ ScoreIdle /\ ValidateIdle /\ MirrorIdle /\ TemplateIdle
    /\ CellInit /\ CardIdle /\ MergeIdle /\ RaceIdle /\ ChatIdle /\ SyncIdle

SpecCells == InitCells /\ [][NextCells]_vars

----------------------------------------------------------------------------
(* Claims about the cell conversions.                                      *)

\* the last call was the named conversion
Converted(op) == cell_out # PyNone /\ cell_out.op = op

\* the cell has a finite numeric form
Numeric(v) == ~isna(v) /\ ToFloat(v).t = "float"

\* C16: safe_convert_year never raises, for a blank cell, a number, numeric text,
\* other text or an infinite value; it returns a year exactly when the numeric form
\* of the cell cut to an integer lies in 1900..2100, the year being that integer, and
\* null otherwise.
C16_YearTotal ==
    Converted("safe_convert_year") =>
        /\ cell_out.out.raised = ""
        /\ IF Numeric(cell) /\ IntOfFloat(cell).i \in 1900..2100
           THEN cell_out.out.ret = PyStr(IntToStr(IntOfFloat(cell).i))
           ELSE cell_out.out.ret = PyNone

\* C16 for every cell but the infinite ones
C16_FiniteCells ==
    (Converted("safe_convert_year") /\ ToFloat(cell).t # "inf") =>
        /\ cell_out.out.raised = ""
        /\ IF Numeric(cell) /\ IntOfFloat(cell).i \in 1900..2100
           THEN cell_out.out.ret = PyStr(IntToStr(IntOfFloat(cell).i))
           ELSE cell_out.out.ret = PyNone

\* the price is absent, blank, or the number zero
NoPrice(v) ==
    \/ isna(v)
    \/ v.t = "str" /\ Strip(v.s) = ""
    \/ Numeric(v) /\ ToFloat(v).m = 0

\* C17: format_price never raises; it returns the price-on-request placeholder for
\* an absent, blank or zero price and, for every other numeric price, the integer
\* part grouped by thousands followed by the currency suffix.
C17_FormatPrice ==
    Converted("format_price") =>
        /\ cell_out.out.raised = ""
        /\ NoPrice(cell) => cell_out.out.ret = PriceOnRequest
        /\ (Numeric(cell) /\ ~NoPrice(cell)) =>
               cell_out.out.ret = Grouped(IntOfFloat(cell).i) \o CurrencySuffix

\* C17 without the zero price and the infinite values
C17_NonZeroFinite ==
    (Converted("format_price") /\ ToFloat(cell).t # "inf"
     /\ ~(Numeric(cell) /\ ToFloat(cell).m = 0)) =>
        /\ cell_out.out.raised = ""
        /\ NoPrice(cell) => cell_out.out.ret = PriceOnRequest
        /\ Numeric(cell) => cell_out.out.ret = Grouped(IntOfFloat(cell).i) \o CurrencySuffix

\* the example of the specification: 1500000 reads 1 500 000 with the suffix
C17_Example == format_price(PyInt(1500000)) = Returns("1 500 000 RUB")

----------------------------------------------------------------------------
(* prepare_cards (src/parser.py): the card made of one row of the frame.    *)
(* A row is a record of cells; a column the frame does not have is absent.  *)

UpperChar(c) == IF IsIn(c, LowerChars) THEN Char(UpperChars, IndexIn(c, LowerChars)) ELSE c

\* s.capitalize()
Capitalize(s) == IF s = "" THEN "" ELSE UpperChar(Head(s)) \o Lower(Tail(s))

\* the digits after the point in str() of a float, from its thousandths
RECURSIVE DropZeros(_)
DropZeros(s) ==
    IF Len(s) > 1 /\ Char(s, Len(s)) = "0" THEN DropZeros(SubSeq(s, 1, Len(s) - 1)) ELSE s

FloatStr(n) ==
    LET a == IF n < 0 THEN 0 - n ELSE n
        r == a % 1000
    IN  (IF n < 0 THEN "-" ELSE "") \o IntToStr(a \div 1000) \o "."
        \o DropZeros((IF r < 10 THEN "00" ELSE IF r < 100 THEN "0" ELSE "") \o IntToStr(r))

\* str(value) of a cell
StrOf(v) ==
    CASE v.t = "float" -> FloatStr(v.m)
      [] v.t = "inf" -> (IF v.neg THEN "-inf" ELSE "inf")
      [] v.t = "int" -> (IF v.i < 0 THEN "-" \o IntToStr(0 - v.i) ELSE IntToStr(v.i))
      [] OTHER -> PyToStr(v)

\* clean_text(value)
clean_text(value) == IF isna(value) THEN "" ELSE Strip(StrOf(value))

\* where sep first starts in s, 0 when it does not occur
FirstIndex(sep, s) ==
    IF Contains(sep, s)
    THEN CHOOSE i \in 1..Len(s) :
             /\ SubSeq(s, i, i + Len(sep) - 1) = sep
             /\ \A j \in 1..(i - 1) : SubSeq(s, j, j + Len(sep) - 1) # sep
    ELSE 0

\* s.split(sep, 1)[0] and s.split(sep, 1)[-1]
BeforeFirst(sep, s) ==
    IF FirstIndex(sep, s) = 0 THEN s ELSE SubSeq(s, 1, FirstIndex(sep, s) - 1)
AfterFirst(sep, s) ==
    IF FirstIndex(sep, s) = 0 THEN s ELSE SubSeq(s, FirstIndex(sep, s) + Len(sep), Len(s))

StartsWith(s, prefix) == Len(s) >= Len(prefix) /\ SubSeq(s, 1, Len(prefix)) = prefix

\* is_valid_url(url)
is_valid_url(url) ==
    LET domain == BeforeFirst("/", AfterFirst("//", url))
    IN  /\ url # ""
        /\ StartsWith(url, "http://") \/ StartsWith(url, "https://")
        /\ Contains(".", domain) /\ Len(domain) > 3

NoMileage == "n/d"
ZeroMileage == "Bez probega"

\* format_mileage(value)
format_mileage(value) ==
    LET v == IntOfFloat(value)
    IN  IF isna(value) \/ value = PyStr("") THEN Returns(NoMileage)
        ELSE IF v.t = "raise"
             THEN (IF v.exc \in {"ValueError", "TypeError"} THEN Returns(NoMileage) ELSE Raises(v))
        ELSE IF v.i = 0 THEN Returns(ZeroMileage)
        ELSE Returns(Grouped(v.i) \o " km")

\* ". ".join(parts)
RECURSIVE JoinParts(_)
JoinParts(parts) ==
    IF parts = <<>> THEN ""
    ELSE IF Len(parts) = 1 THEN parts[1]
    ELSE parts[1] \o ". " \o JoinParts(Tail(parts))

\* make_short_description(row)
make_short_description(r) ==
    LET mod == clean_text(r.modification)
        cond == clean_text(r.condition)
        keys == clean_text(r.keys)
    IN  JoinParts((IF mod # "" THEN <<mod>> ELSE <<>>)
                  \o (IF cond # "" THEN <<"Sostoyanie: " \o Lower(cond)>> ELSE <<>>)
                  \o (IF keys # "" THEN <<"Klyuchi: " \o Lower(keys)>> ELSE <<>>))

\* Python truthiness of a cell
TruthyCell(v) == IF v.t = "float" THEN v.m # 0 ELSE Truthy(v)

\* f"{pct:.0f}" of a positive percentage given in tenths: to the nearest integer,
\* a half to the even neighbour
RoundPercent(tenths) ==
    LET q == tenths \div 10
        r == tenths % 10
    IN  IF r < 5 THEN q
        ELSE IF r > 5 THEN q + 1
        ELSE IF q % 2 = 0 THEN q ELSE q + 1

\* the discount of a row as prepare_cards works it out: has_discount and the badge.
\* float(discount_pct) * 100 is the thousandths of the cell divided by ten.
Discount(r) ==
    LET cell_pct == Get(r.discount_pct)
        pct == ToFloat(cell_pct)
        none == [has_discount |-> FALSE, discount_pct |-> ""]
    IN  IF isna(cell_pct) \/ ~TruthyCell(cell_pct) THEN none
        ELSE IF pct.t = "inf" /\ ~pct.neg
             THEN [has_discount |-> TRUE, discount_pct |-> "-inf%"]
        ELSE IF pct.t = "float" /\ pct.m > 0
             THEN [has_discount |-> TRUE,
                   discount_pct |-> "-" \o IntToStr(RoundPercent(pct.m)) \o "%"]
        ELSE none

\* the comma-separated parts of a text
RECURSIVE SplitComma(_)
SplitComma(s) ==
    IF FirstIndex(",", s) = 0 THEN <<s>>
    ELSE <<BeforeFirst(",", s)>> \o SplitComma(AfterFirst(",", s))

\* the location of a card as prepare_cards works it out
Location(address, federal_district) ==
    IF address # ""
    THEN (IF Len(SplitComma(address)) >= 2
          THEN Strip(SplitComma(address)[2])
          ELSE Prefix(address, 60))
    ELSE federal_district

\* the body of the loop of prepare_cards for a row with a brand or a model
MakeCard(r) ==
    LET brand == clean_text(r.brand)
        model == clean_text(r.model)
        year == clean_text(r.year)
        photo == clean_text(r.photo_url)
        price_str == format_price(Get(r.price))
        discount == Discount(r)
        discount_price_str ==
            IF discount.has_discount THEN format_price(Get(r.discount_price)) ELSE Returns("")
        color == clean_text(r.color)
        mileage == format_mileage(Get(r.mileage))
        address == clean_text(r.address)
        raised == IF price_str.raised # "" THEN price_str.raised
                  ELSE IF discount_price_str.raised # "" THEN discount_price_str.raised
                  ELSE mileage.raised
    IN  IF raised # "" THEN [raised |-> raised]
        ELSE [raised |-> "",
              code |-> clean_text(r.code),
              title |-> Strip(brand \o " " \o model)
                        \o (IF year # "" THEN " (" \o year \o ")" ELSE ""),
              brand |-> brand,
              model |-> model,
              year |-> year,
              color |-> Capitalize(color),
              vehicle_type |-> clean_text(r.vehicle_type),
              mileage |-> mileage.ret,
              price |-> price_str.ret,
              has_discount |-> discount.has_discount,
              discount_pct |-> discount.discount_pct,
              discount_price |-> discount_price_str.ret,
              original_price |-> IF discount.has_discount THEN price_str.ret ELSE "",
              photo_url |-> IF is_valid_url(photo) THEN photo ELSE "",
              has_photo |-> is_valid_url(photo),
              location |-> Location(address, clean_text(r.federal_district)),
              address |-> address,
              vin |-> clean_text(r.vin),
              comment |-> clean_text(r.comment),
              short_desc |-> make_short_description(r),
              status |-> clean_text(r.status)]

\* prepare_cards(df) of a frame of one row: the list of cards, or the exception
prepare_cards(r) ==
    IF clean_text(r.brand) = "" /\ clean_text(r.model) = "" THEN Returns(<<>>)
    ELSE IF MakeCard(r).raised # "" THEN [ret |-> <<>>, raised |-> MakeCard(r).raised]
    ELSE Returns(<<MakeCard(r)>>)

\* the discount cells: none, zero, fractions below and above half a percent, whole
\* percents, a negative one, text, an infinite one
DiscountCells ==
    {Absent, PyNaN, PyInt(0), PyInt(1), PyStr(""), PyStr("abc"), PyStr("0.15"),
     PyStr("nan"), PyInf(FALSE), PyInf(TRUE)}
    \cup {PyFloat(n) : n \in {0, 1, 4, 5, 6, 10, 15, 25, 150, 1000, 0 - 100}}

LongAddress ==
    "Moskovskaya oblast gorod Himki ulica Leningradskaya dom 25 stroenie 4 ofis 12"

\* the address cells: none, blank, one part, several parts, an empty second part, a
\* single part longer than sixty characters
AddressCells ==
    {Absent, PyStr(" "), PyStr("Moskva"), PyStr("Rossiya, Kazan , ul. Mira"),
     PyStr("Tula,"), PyStr(LongAddress)}

DistrictCells == {PyNaN, PyStr("CFO")}

\* the rows of the frame
RowPool ==
    {[code |-> PyStr("1"), brand |-> brand, model |-> PyStr("Rio"), year |-> PyStr("2015"),
      color |-> PyStr("belyj"), vehicle_type |-> PyStr("Legkovye"), mileage |-> mileage,
      price |-> price, discount_pct |-> pct, discount_price |-> PyFloat(900000000),
      photo_url |-> PyStr("https://a.ru/1.jpg"), address |-> address,
      federal_district |-> district, vin |-> Absent, comment |-> PyNaN,
      modification |-> PyStr("1.6 AT"), condition |-> PyStr("Horoshee"), keys |-> Absent,
      status |-> Absent] :
        brand \in {PyStr("Kia"), PyNaN},
        mileage \in {PyInt(0), PyStr("n/a")},
        price \in {PyFloat(1000000000), PyInt(0)},
        pct \in DiscountCells,
        address \in AddressCells,
        district \in DistrictCells}
    \cup {[code |-> PyStr("2"), brand |-> PyNaN, model |-> Absent, year |-> Absent,
           color |-> Absent, vehicle_type |-> Absent, mileage |-> Absent,
           price |-> Absent, discount_pct |-> Absent, discount_price |-> Absent,
           photo_url |-> PyStr("https://."), address |-> Absent,
           federal_district |-> Absent, vin |-> Absent, comment |-> Absent,
           modification |-> Absent, condition |-> Absent, keys |-> Absent,
           status |-> Absent]}

CardInit ==
    /\ row \in RowPool
    /\ made_card = PyNone

PrepareCards ==
    /\ made_card = PyNone
    /\ made_card' = prepare_cards(row)
    /\ UNCHANGED row
    /\ UNCHANGED exceptCards

NextCards == PrepareCards

InitCards ==
    FeedInit /\ MapIdle /\ ScoreIdle /\ ValidateIdle /\ MirrorIdle /\ TemplateIdle
    /\ CellIdle /\ CardInit /\ MergeIdle /\ RaceIdle /\ ChatIdle /\ SyncIdle

SpecCards == InitCards /\ [][NextCards]_vars

----------------------------------------------------------------------------
(* Claims about prepare_cards.                                             *)

\* prepare_cards has returned a card for the row
CardMade == made_card # PyNone /\ made_card.raised = "" /\ made_card.ret # <<>>

TheCard == made_card.ret[1]

\* discount_pct is present and numeric, and a hundred times its value, rounded to a
\* whole percent, is above zero
RoundedDiscount ==
    /\ Numeric(Get(row.discount_pct))
    /\ ToFloat(Get(row.discount_pct)).m > 0
    /\ RoundPercent(ToFloat(Get(row.discount_pct)).m) > 0

\* the badge reads -N% with N at least one
BadgeOfAtLeastOne(badge) ==
    \E n \in 1..1000 : badge = "-" \o IntToStr(n) \o "%"

\* C18: a card is discounted exactly when discount_pct is present and numeric and a
\* hundred times its value, rounded to a whole percent, is above zero; a discounted
\* card has a badge -N% with N >= 1, a discounted price and the formatted price as
\* original_price; any other card has none of the three.
C18_Discount ==
    CardMade =>
        /\ TheCard.has_discount = RoundedDiscount
        /\ TheCard.has_discount =>
               /\ BadgeOfAtLeastOne(TheCard.discount_pct)
               /\ TheCard.discount_price # ""
               /\ TheCard.original_price = format_price(Get(row.price)).ret
        /\ ~TheCard.has_discount =>
               /\ TheCard.discount_pct = ""
               /\ TheCard.discount_price = ""
               /\ TheCard.original_price = ""

\* C18 for the rows whose discount is no positive fraction below half a percent and
\* not infinite
C18_WholePercents ==
    (CardMade /\ Get(row.discount_pct) \notin {PyFloat(1), PyFloat(4), PyFloat(5), PyInf(FALSE)}) =>
        /\ TheCard.has_discount = RoundedDiscount
        /\ TheCard.has_discount =>
               /\ BadgeOfAtLeastOne(TheCard.discount_pct)
               /\ TheCard.discount_price # ""
               /\ TheCard.original_price = format_price(Get(row.price)).ret
        /\ ~TheCard.has_discount =>
               /\ TheCard.discount_pct = ""
               /\ TheCard.discount_price = ""
               /\ TheCard.original_price = ""

\* the location in the order second part, district, address prefix
LocationDistrictFirst(address, federal_district) ==
    IF address # "" /\ Len(SplitComma(address)) >= 2 THEN Strip(SplitComma(address)[2])
    ELSE IF federal_district # "" THEN federal_district
    ELSE Prefix(address, 60)

\* C19: the location of a card is the second comma-separated part of the address
\* when the address has two parts or more, otherwise the district when there is
\* one, and only otherwise the first sixty characters of the address.
C19_Location ==
    CardMade =>
        TheCard.location =
            LocationDistrictFirst(clean_text(row.address), clean_text(row.federal_district))

\* C19 for the rows that do not have both a one-part address and a district
C19_NoChoice ==
    (CardMade /\ ~(clean_text(row.address) # ""
                   /\ Len(SplitComma(clean_text(row.address))) < 2
                   /\ clean_text(row.federal_district) # "")) =>
        TheCard.location =
            LocationDistrictFirst(clean_text(row.address), clean_text(row.federal_district))

----------------------------------------------------------------------------
(* merge_data (src/parser.py).  A frame is the sequence of its rows; a row  *)
(* carries its code, its source and the discount column, the other columns  *)
(* ride along unchanged.  sort_values runs with the default sort, which     *)
(* does not say in what order it leaves rows of equal key.                  *)

\* the order of the characters of a code or a source
CodeChars == DigitChars \o UpperChars \o "_" \o LowerChars

\* a < b for two Python strings
RECURSIVE StrLess(_, _)
StrLess(a, b) ==
    IF b = "" THEN FALSE
    ELSE IF a = "" THEN TRUE
    ELSE IF Char(a, 1) = Char(b, 1) THEN StrLess(Tail(a), Tail(b))
    ELSE IndexIn(Char(a, 1), CodeChars) < IndexIn(Char(b, 1), CodeChars)

\* the orders in which a sort can leave rows of equal key
Perms(rows) ==
    {[i \in 1..Len(rows) |-> rows[f[i]]] : f \in Permutations(1..Len(rows))}

\* combined.sort_values("source"): ascending, the reverse of what merge_data asks for
RECURSIVE sort_by_source_ascending(_)
sort_by_source_ascending(rows) ==
    IF rows = <<>> THEN {<<>>}
    ELSE LET low == CHOOSE x \in {rows[i].source : i \in 1..Len(rows)} :
                        \A i \in 1..Len(rows) : ~StrLess(rows[i].source, x)
         IN  {first \o rest :
                  first \in Perms(SelectSeq(rows, LAMBDA r : r.source = low)),
                  rest \in sort_by_source_ascending(SelectSeq(rows, LAMBDA r : r.source # low))}

\* combined.sort_values("source", ascending=False): every order it can return
RECURSIVE sort_by_source(_)
sort_by_source(rows) ==
    IF rows = <<>> THEN {<<>>}
    ELSE LET top == CHOOSE x \in {rows[i].source : i \in 1..Len(rows)} :
                        \A i \in 1..Len(rows) : ~StrLess(x, rows[i].source)
         IN  {first \o rest :
                  first \in Perms(SelectSeq(rows, LAMBDA r : r.source = top)),
                  rest \in sort_by_source(SelectSeq(rows, LAMBDA r : r.source # top))}

\* combined.drop_duplicates(subset=["code"], keep="first")
drop_duplicates(rows) ==
    LET kept == {i \in 1..Len(rows) : \A j \in 1..(i - 1) : rows[j].code # rows[i].code}
        Nth(n) == CHOOSE i \in kept : Cardinality({j \in kept : j < i}) = n - 1
    IN  [n \in 1..Cardinality(kept) |-> rows[Nth(n)]]

\* combined.sort_values("code").reset_index(drop=True) of rows of distinct codes
RECURSIVE sort_by_code(_)
sort_by_code(rows) ==
    IF rows = <<>> THEN <<>>
    ELSE LET least == CHOOSE i \in 1..Len(rows) :
                          \A j \in 1..Len(rows) : ~StrLess(rows[j].code, rows[i].code)
         IN  <<rows[least]>>
             \o sort_by_code(SelectSeq(rows, LAMBDA r : r.code # rows[least].code))

\* merge_data(df1, df2): every frame it can return
merge_data(d1, d2) ==
    {sort_by_code(drop_duplicates(combined)) : combined \in sort_by_source(d1 \o d2)}

\* offer codes as read_file1 and read_file2 leave them: stripped text
CodePool == {"9", "10", "A2"}

\* the rows of the stock file and of the winter-sale file
StockRows == {[code |-> c, source |-> "stock", discount_pct |-> PyNone] : c \in CodePool}
SaleRows ==
    {[code |-> c, source |-> "winter_sale", discount_pct |-> PyFloat(n)] :
        c \in CodePool, n \in {100, 150}}

MergeInit ==
    /\ df1 \in SeqsUpTo(StockRows, MaxRows)
    /\ df2 \in SeqsUpTo(SaleRows, MaxRows)
    /\ merged = PyNone

Merge ==
    /\ merged = PyNone
    /\ \E frame \in merge_data(df1, df2) : merged' = [t |-> "frame", rows |-> frame]
    /\ UNCHANGED <<df1, df2>>
    /\ UNCHANGED exceptMerge

NextMerge == Merge

InitMerge ==
    FeedInit /\ MapIdle /\ ScoreIdle /\ ValidateIdle /\ MirrorIdle /\ TemplateIdle
    /\ CellIdle /\ CardIdle /\ MergeInit /\ RaceIdle /\ ChatIdle /\ SyncIdle

SpecMerge == InitMerge /\ [][NextMerge]_vars

----------------------------------------------------------------------------
(* Claims about merge_data.                                                *)

\* the codes of a frame
Codes(rows) == {rows[i].code : i \in 1..Len(rows)}

\* the rows of a frame
Rows(rows) == {rows[i] : i \in 1..Len(rows)}

\* C20: merge_data(stock, winter_sale) returns exactly one row for every code that
\* occurs in either frame and no other row, in ascending order of the code; for a
\* code that occurs in both frames the row returned is the winter_sale row.
C20_MergeData ==
    merged # PyNone =>
        /\ Codes(merged.rows) = Codes(df1) \cup Codes(df2)
        /\ Len(merged.rows) = Cardinality(Codes(merged.rows))
        /\ Rows(merged.rows) \subseteq Rows(df1) \cup Rows(df2)
        /\ \A i, j \in 1..Len(merged.rows) :
               i < j => StrLess(merged.rows[i].code, merged.rows[j].code)
        /\ \A i \in 1..Len(merged.rows) :
               merged.rows[i].code \in Codes(df1) \cap Codes(df2) =>
                   /\ merged.rows[i].source = "winter_sale"
                   /\ merged.rows[i] \in Rows(df2)

\* a merge of two frames that share a code and hold another one each or between them
C20_Witness ==
    /\ merged # PyNone
    /\ Codes(df1) \cap Codes(df2) # {}
    /\ Codes(df1) # Codes(df2)
    /\ Len(merged.rows) >= 2

----------------------------------------------------------------------------
(* Claims about the normalised fields of feed items.                       *)

Categories == {"passenger", "truck", "spec", "equipment"}

\* the keyword groups of the vehicle type, in the order they are tried
VehicleGroups ==
    << [category |-> "passenger",
        words |-> {"legkov", "lcv", "sedan", "hetchbek", "vnedorozh"}],
       [category |-> "truck",
        words |-> {"gruz", "tyagach", "furgon", "samosval", "pricep"}],
       [category |-> "spec",
        words |-> {"ekskavat", "buldozer", "traktor", "katok", "pogruzchik", "kran"}] >>

\* the groups with a keyword that occurs in the vehicle type
MatchingGroups(vehicle_type) ==
    {g \in 1..Len(VehicleGroups) :
        \E w \in VehicleGroups[g].words : Contains(w, Lower(vehicle_type))}

\* the category of the first matching group, equipment without one
FirstGroup(vehicle_type) ==
    IF MatchingGroups(vehicle_type) = {} THEN "equipment"
    ELSE VehicleGroups[Min(MatchingGroups(vehicle_type))].category

\* C21: after any sequence of imports, submissions, updates and deletions every item
\* of the feed has one of the four categories, and an import gives each item the
\* category of the first keyword group, in the order passenger, truck, spec, that
\* matches the vehicle type of its card, equipment when none matches or the card has
\* no vehicle type.
C21_Category ==
    [][/\ \A i \in 1..Len(Items(feedFile')) : Items(feedFile')[i].category \in Categories
       /\ last'.op = "replace" =>
              LET post == Items(feedFile')
                  titled == Titled(last'.cards)
                  kept == Len(post) - Len(titled)
              IN  \A k \in 1..Len(titled) :
                      post[kept + k].category = FirstGroup(titled[k].vehicle_type)]_vars

\* an import of cards whose vehicle types match two groups, the third group, no
\* group, and of a card without vehicle type
C21_Witness ==
    /\ last.op = "replace"
    /\ \E c \in 1..Len(last.cards) : Cardinality(MatchingGroups(last.cards[c].vehicle_type)) = 2
    /\ \E c \in 1..Len(last.cards) : MatchingGroups(last.cards[c].vehicle_type) = {3}
    /\ \E c \in 1..Len(last.cards) :
           last.cards[c].vehicle_type # "" /\ MatchingGroups(last.cards[c].vehicle_type) = {}
    /\ \E c \in 1..Len(last.cards) : last.cards[c].vehicle_type = ""
    /\ \E i \in 1..Len(Items(feedFile)) : Items(feedFile)[i].source_type = "manual"

----------------------------------------------------------------------------
(* Claims about the order in which auto_map_columns hands out the headers.  *)

\* the score of a header for a field
HeaderScore(col, field) ==
    calculate_match_score(normalize_column_name(col), GetDefault(keywords[field], EmptyKeywords))

\* where a header first stands in the header list
FirstPlace(col) == Min({i \in 1..Len(excel_columns) : excel_columns[i] = col})

\* C22: the target fields are processed in the given order; a field that is assigned
\* a header is assigned the header of the highest score among those no earlier field
\* consumed, the first of the header list among equals; a consumed header keeps its
\* field whatever a later field would score it.
C22_GreedyOrder ==
    [][field_index' = field_index + 1 =>
          LET field == target_fields[field_index + 1]
          IN  /\ SubSeq(mapping', 1, Len(mapping)) = mapping
              /\ used_excel_cols \subseteq used_excel_cols'
              /\ mapping' # mapping =>
                    LET col == mapping'[Len(mapping')][1]
                    IN  /\ Len(mapping') = Len(mapping) + 1
                        /\ mapping'[Len(mapping')][2] = field
                        /\ col \notin used_excel_cols
                        /\ used_excel_cols' = used_excel_cols \cup {col}
                        /\ HeaderScore(col, field) =
                               HighestAvailable(GetDefault(keywords[field], EmptyKeywords))
                        /\ \A i \in 1..(FirstPlace(col) - 1) :
                               excel_columns[i] \notin used_excel_cols =>
                                   HeaderScore(excel_columns[i], field) < HeaderScore(col, field)
      ]_vars

\* a returned mapping in which a header went to an earlier field although a later
\* field scores it higher
C22_Witness ==
    /\ map_result # PyNone
    /\ \E i \in 1..Len(mapping) : \E a, b \in 1..Len(target_fields) :
          /\ a < b
          /\ mapping[i][2] = target_fields[a]
          /\ target_fields[a] # target_fields[b]
          /\ HeaderScore(mapping[i][1], target_fields[b])
                 > HeaderScore(mapping[i][1], target_fields[a])

\* a returned mapping whose header had an equal of another name after it
C22_TieWitness ==
    /\ map_result # PyNone
    /\ \E i \in 1..Len(mapping) : \E j \in 1..Len(excel_columns) :
          /\ excel_columns[j] # mapping[i][1]
          /\ FirstPlace(mapping[i][1]) < j
          /\ excel_columns[j] \notin DictKeys(mapping)
          /\ HeaderScore(excel_columns[j], mapping[i][2])
                 = HeaderScore(mapping[i][1], mapping[i][2])

----------------------------------------------------------------------------
(* Two submissions run as separate load-modify-save sequences over the one *)
(* feed document (src/bot.py, load_ads_feed, add_manual_ad_to_feed).  A    *)
(* worker reads the document, keeps what it read in its local feed, and    *)
(* later writes the whole document back from that local.                   *)

Workers == {1, 2}

\* a feed document that json.load cannot read: the text of doc, damaged
Damaged(doc) == [kind |-> "malformed", was |-> doc]

\* a feed of one earlier submission
StoredFeed ==
    add_manual_ad_to_feed(NoFile,
                          [BlankAd EXCEPT !.id = PyStr("m0"), !.title = PyStr("Zil")], 1, 0).file

\* the documents the two submissions start from
RaceFiles == {NoFile, StoredFeed, Damaged(StoredFeed)}

\* the submissions the two workers carry
RaceAds == {ad \in AdPool : ad.id # PyStr("excel-1")}

\* the feed a worker modifies and saves is the one it loaded, re-read at the save
FeedAtSaveReread(snapshot, current) == current

\* the feed a worker modifies and saves is the local it loaded at line 622
FeedAtSave(snapshot, current) == snapshot

RaceInit ==
    /\ workers \in [Workers -> {[pc |-> "idle", ad |-> ad, user_id |-> u, snap |-> NoFile,
                                 saves_at_load |-> 0, reply |-> PyNone] :
                                    ad \in RaceAds, u \in UserIds}]
    /\ save_order = <<>>
    /\ feedFile \in RaceFiles
    /\ clock = 1
    /\ last = NoCall

\* feed = load_ads_feed() of add_manual_ad_to_feed, by worker w
RaceLoad(w) ==
    /\ workers[w].pc = "idle"
    /\ workers' = [workers EXCEPT ![w].pc = "loaded", ![w].snap = feedFile,
                                  ![w].saves_at_load = Len(save_order)]
    /\ UNCHANGED <<feedVars, save_order>>

\* the rest of add_manual_ad_to_feed, by worker w: build the item, filter, append, save
RaceSave(w) ==
    /\ workers[w].pc = "loaded"
    /\ LET r == add_manual_ad_to_feed(FeedAtSave(workers[w].snap, feedFile),
                                      workers[w].ad, workers[w].user_id, clock)
       IN  /\ feedFile' = r.file
           /\ workers' = [workers EXCEPT ![w].pc = "done", ![w].reply = r.result]
    /\ save_order' = Append(save_order, w)
    /\ clock' = clock + 1
    /\ UNCHANGED last

Load == \E w \in Workers : RaceLoad(w) /\ UNCHANGED exceptRace

Save == \E w \in Workers : RaceSave(w) /\ UNCHANGED exceptRace

NextRace == Load \/ Save

InitRace == RaceInit /\ MapIdle /\ ScoreIdle /\ ValidateIdle /\ MirrorIdle /\ TemplateIdle
            /\ CellIdle /\ CardIdle /\ MergeIdle /\ ChatIdle /\ SyncIdle

SpecRace == InitRace /\ [][NextRace]_vars

----------------------------------------------------------------------------
(* Claims about interleaved mutations and about a feed that cannot be read *)

\* the ids of the items a reader of the document sees
IdsOf(file) == {Items(file)[i].id : i \in 1..Len(Items(file))}

\* both workers loaded the feed before either saved, and both have saved
BothLoadedFirst ==
    /\ Len(save_order) = 2
    /\ \A w \in Workers : workers[w].saves_at_load = 0

\* the item of the worker that saved first is not in the persisted feed
FirstIsLost == workers[save_order[1]].reply.id \notin IdsOf(feedFile)

\* C23: when both mutations load the feed before either saves, both return their
\* item without an error, and the persisted feed is the loaded one with the item
\* of the second saver alone: the item of the first saver is absent from it unless
\* it was in the loaded feed or has the id of the second
C23_LostUpdate ==
    BothLoadedFirst =>
        LET first == workers[save_order[1]]
            second == workers[save_order[2]]
        IN  /\ first.reply # PyNone /\ second.reply # PyNone
            /\ IdsOf(feedFile) = IdsOf(second.snap) \cup {second.reply.id}
            /\ (first.reply.id \notin IdsOf(first.snap) /\ first.reply.id # second.reply.id)
                    => FirstIsLost

\* both loaded first, both replied, and the first saver's item is gone
C23_Witness ==
    /\ BothLoadedFirst
    /\ \A w \in Workers : workers[w].reply # PyNone
    /\ FirstIsLost

\* C24: a mutation that could not read the persisted feed fails and leaves the
\* document as it was
C24_ReadFailureFails ==
    [][\A w \in Workers :
          (workers[w].pc = "loaded" /\ workers'[w].pc = "done"
             /\ workers[w].snap.kind = "malformed")
            => /\ feedFile' = feedFile
               /\ workers'[w].reply = PyNone]_vars

\* a mutation that reads the feed saves it with the stored items kept
C24_ReadableKept ==
    [][\A w \in Workers :
          (workers[w].pc = "loaded" /\ workers'[w].pc = "done"
             /\ workers[w].snap.kind # "malformed")
            => IdsOf(workers[w].snap) \subseteq IdsOf(feedFile')]_vars

----------------------------------------------------------------------------
(* The chat import (src/bot.py): parse_command arms the import for a user, *)
(* parse_document_handler runs it on the next Excel document of that user. *)

MaxChatLog == 3

\* fuzzy_keywords for the four critical fields
ChatKeywords ==
    [code |-> [primary |-> PyList(<<"Kod">>), synonyms |-> PyList(<<>>)],
     brand |-> [primary |-> PyList(<<"Marka">>), synonyms |-> PyList(<<>>)],
     model |-> [primary |-> PyList(<<"Model">>), synonyms |-> PyList(<<>>)],
     price |-> [primary |-> PyList(<<"cena">>), synonyms |-> PyList(<<>>)],
     year |-> Absent]

\* a config.json with these keywords and no template
ChatConfig ==
    [t |-> "json", version |-> "1.0", fuzzy_keywords |-> ChatKeywords, mappings |-> <<>>]

\* a template naming the four critical fields, and one naming the code alone
FullTemplate ==
    << <<PyStr("Kod"), "code">>, <<PyStr("Marka"), "brand">>, <<PyStr("Model"), "model">>,
       <<PyStr("cena"), "price">> >>

CodeTemplate == << <<PyStr("Kod"), "code">> >>

\* the config.json files the bot runs with
ChatConfigs ==
    {ChatConfig,
     add_mapping_template(ChatConfig, "stock", FullTemplate).file,
     add_mapping_template(ChatConfig, "stock", CodeTemplate).file}

\* the uploaded documents: extension, stem and header row
ChatDocuments ==
    { [ext |-> ".xlsx", stem |-> "stock",
       headers |-> <<PyStr("Kod"), PyStr("Marka"), PyStr("Model"), PyStr("cena")>>],
      [ext |-> ".xlsx", stem |-> "stock", headers |-> <<PyStr("Kod"), PyStr("cena")>>],
      [ext |-> ".txt", stem |-> "notes", headers |-> <<>>] }

\* what the user store says of the sender when the update arrives, and whether the
\* parser modules were imported: authenticated, role, is_parser_enabled()
ChatGates ==
    { <<FALSE, USER_ROLE_ADMIN, TRUE>>, <<TRUE, USER_ROLE_USER, TRUE>>,
      <<TRUE, USER_ROLE_ADMIN, FALSE>>, <<TRUE, USER_ROLE_ADMIN, TRUE>>,
      <<TRUE, USER_ROLE_LEASING_COMPANY, TRUE>> }

\* where the try block of parse_document_handler raises, if it does
ChatFailures == {"none", "download", "parse", "reply"}

\* the cards prepare_cards makes of the uploaded sheet
ChatCards == {<<>>, <<CardKia>>}

\* a feed with one imported and one submitted item
ChatFeed ==
    add_manual_ad_to_feed(replace_excel_ads(NoFile, <<CardKamaz>>, 0).file,
                          [BlankAd EXCEPT !.id = PyStr("m0"), !.title = PyStr("Zil")], 1, 0).file

ChatInit ==
    /\ parser_waiting_file = [u \in UserIds |-> FALSE]
    /\ action_log = <<>>
    /\ chat_last = PyNone
    /\ configFile \in ChatConfigs
    /\ tpl_last = PyNone
    /\ feedFile \in {NoFile, ChatFeed}
    /\ clock = 1
    /\ last = NoCall

\* log_user_action(user_data, action, ...)
log_user_action(log, u, action) == Append(log, <<u, action>>)

\* the checks parse_command and parse_document_handler share: the reply and the
\* log entry of the first check that fails, "" when all pass
ChatGate(gate_in, denied, unavailable) ==
    CASE ~gate_in[1] -> "auth_required"
      [] gate_in[2] \notin AD_MANAGEMENT_ROLES -> denied
      [] ~gate_in[3] -> unavailable
      [] OTHER -> ""

\* parse_command for user u
parse_command(u, gate_in) ==
    LET refused == ChatGate(gate_in, "parse_denied", "parse_unavailable")
    IN  IF refused # ""
        THEN /\ action_log' = log_user_action(action_log, u, refused)
             /\ chat_last' = [op |-> "parse", user |-> u, reply |-> refused]
             /\ UNCHANGED parser_waiting_file
        ELSE /\ parser_waiting_file' = [parser_waiting_file EXCEPT ![u] = TRUE]
             /\ action_log' = log_user_action(action_log, u, "parse_start")
             /\ chat_last' = [op |-> "parse", user |-> u, reply |-> "send_file"]

\* the finally block of parse_document_handler leaving the flag as it was
waiting_after_attempt_kept(waiting, u) == waiting

\* the finally block of parse_document_handler: the flag of the sender is cleared
waiting_after_attempt(waiting, u) == [waiting EXCEPT ![u] = FALSE]

\* the try block of parse_document_handler with its except and finally; m is the
\* outcome of the mapping step, r that of replace_excel_ads(cards)
AttemptOutcome(u, doc, failure, m, r) ==
    LET received == log_user_action(action_log, u, "parse_file_received")
        replaced == failure \in {"none", "reply"} /\ ~m.raised
        raised_at == IF failure = "download" THEN "download"
                     ELSE IF m.raised THEN "mapping" ELSE failure
        error == [op |-> "document", user |-> u, reply |-> "parse_error", document |-> doc,
                  mapping |-> PyNone, replaced |-> replaced, raised_at |-> raised_at,
                  missing |-> IF failure # "download" /\ m.raised
                              THEN validate_mapping(m.mapping.d).missing_critical
                              ELSE <<>>]
    IN  /\ Len(action_log) + 2 <= MaxChatLog
        /\ parser_waiting_file' = waiting_after_attempt(parser_waiting_file, u)
        /\ IF replaced
           THEN /\ feedFile' = r.file
                /\ clock' = clock + 1
           ELSE UNCHANGED <<feedFile, clock>>
        /\ IF failure = "none" /\ ~m.raised
           THEN /\ action_log' = log_user_action(received, u, "parse_success")
                /\ chat_last' = [op |-> "document", user |-> u, reply |-> "summary",
                                 document |-> doc, mapping |-> m.mapping,
                                 replaced |-> TRUE, raised_at |-> "none",
                                 missing |-> <<>>]
           ELSE /\ action_log' = log_user_action(received, u, "parse_error")
                /\ chat_last' = IF replaced THEN [error EXCEPT !.mapping = m.mapping]
                                ELSE error

\* the try block entered with the document doc
ParseAttempt(u, doc, failure, cards) ==
    AttemptOutcome(u, doc, failure, ChatMapping(configFile, doc.stem, doc.headers),
                   replace_excel_ads(feedFile, cards, clock))

\* parse_document_handler for a document sent by user u
parse_document_handler(u, gate_in, doc, failure, cards) ==
    LET refused == ChatGate(gate_in, "parse_file_denied", "parse_file_unavailable")
    IN  IF refused # ""
        THEN /\ Len(action_log) < MaxChatLog
             /\ action_log' = log_user_action(action_log, u, refused)
             /\ chat_last' = [op |-> "document", user |-> u, reply |-> refused]
             /\ UNCHANGED <<parser_waiting_file, feedFile, clock>>
        ELSE IF ~parser_waiting_file[u]
        THEN /\ chat_last' = [op |-> "document", user |-> u, reply |-> "request_first"]
             /\ UNCHANGED <<parser_waiting_file, action_log, feedFile, clock>>
        ELSE IF doc.ext \notin {".xlsx", ".xls", ".xlsm"}
        THEN /\ chat_last' = [op |-> "document", user |-> u, reply |-> "need_excel"]
             /\ UNCHANGED <<parser_waiting_file, action_log, feedFile, clock>>
        ELSE ParseAttempt(u, doc, failure, cards)

ParseCommand ==
    /\ Len(action_log) < MaxChatLog
    /\ \E u \in UserIds, gate_in \in ChatGates : parse_command(u, gate_in)
    /\ UNCHANGED <<feedVars, mapVars, scoreVars, validateVars, mirrorVars, templateVars,
                   cellVars, cardVars, mergeVars, raceVars, syncVars>>

\* the documents that make a difference for a sender: any document is answered
\* alike when a check fails or no import was requested
DocumentsFrom(u, gate_in) ==
    IF ChatGate(gate_in, "parse_file_denied", "parse_file_unavailable") = ""
       /\ parser_waiting_file[u]
    THEN ChatDocuments
    ELSE {CHOOSE doc \in ChatDocuments : doc.ext = ".xlsx"}

\* where the try block raises and the cards it makes, for the documents that reach it
AttemptsOn(u, gate_in, doc) ==
    IF DocumentsFrom(u, gate_in) = ChatDocuments /\ doc.ext = ".xlsx"
    THEN ChatFailures \X ChatCards
    ELSE {<<"none", <<>>>>}

ParseDocument ==
    /\ \E u \in UserIds, gate_in \in ChatGates :
          \E doc \in DocumentsFrom(u, gate_in) :
             \E attempt \in AttemptsOn(u, gate_in, doc) :
                parse_document_handler(u, gate_in, doc, attempt[1], attempt[2])
    /\ UNCHANGED <<last, mapVars, scoreVars, validateVars, mirrorVars, templateVars,
                   cellVars, cardVars, mergeVars, raceVars, syncVars>>

NextChat == ParseCommand \/ ParseDocument

InitChat == ChatInit /\ MapIdle /\ ScoreIdle /\ ValidateIdle /\ MirrorIdle /\ CellIdle
            /\ CardIdle /\ MergeIdle /\ RaceIdle /\ SyncIdle

SpecChat == InitChat /\ [][NextChat]_vars

----------------------------------------------------------------------------
(* Claims about the chat import.                                           *)

\* the step is a document handled up to replace_excel_ads
Replaces == chat_last'.op = "document" /\ chat_last' # chat_last
            /\ chat_last'.reply \in {"summary", "parse_error"} /\ chat_last'.replaced

\* the step is a document whose mapping lacks a critical field
LacksCritical(doc) ==
    ~validate_mapping(ChatMapping(configFile, doc.stem, doc.headers).mapping.d).is_valid

C25_AutoMapped ==
    [][(Replaces /\ get_mapping_template(configFile, chat_last'.document.stem) = PyNone)
          => validate_mapping(chat_last'.mapping.d).is_valid]_vars

\* an automatic mapping with the four critical fields has reached the replacement
C25_AutoWitness ==
    /\ chat_last # PyNone /\ chat_last.op = "document" /\ chat_last.reply = "summary"
    /\ get_mapping_template(configFile, chat_last.document.stem) = PyNone
    /\ validate_mapping(chat_last.mapping.d).is_valid

\* the entries of the log that arm or use up the import of user u
Relevant(u) ==
    {i \in 1..Len(action_log) :
        /\ action_log[i][1] = u
        /\ action_log[i][2] \in {"parse_start", "parse_file_received"}}

\* user u issued a parse request that passed the checks, and no import attempt of
\* u reached parsing since
Armed(u) ==
    /\ Relevant(u) # {}
    /\ action_log[CHOOSE i \in Relevant(u) : \A j \in Relevant(u) : j <= i][2] = "parse_start"

\* the step is an import attempt of user u that reaches parsing
Attempt(u) ==
    /\ Len(action_log') = Len(action_log) + 2
    /\ action_log'[Len(action_log) + 1] = <<u, "parse_file_received">>
    /\ action_log'[Len(action_log) + 2][2] \in {"parse_success", "parse_error"}

\* C27: parse_document_handler runs an import for a user only when that user issued
\* a parse request that passed the authentication, role and availability checks and
\* made no import attempt since; every attempt that reaches parsing, successful or
\* not, clears the waiting flag, and a document sent without a new parse request is
\* refused with the feed unchanged
C27_ImportNeedsRequest ==
    [][/\ \A u \in UserIds :
            /\ parser_waiting_file'[u] <=> Armed(u)'
            /\ Attempt(u) => (Armed(u) /\ ~parser_waiting_file'[u])
            /\ (chat_last'.op = "document" /\ chat_last'.user = u /\ ~Armed(u))
                  => /\ ~Attempt(u)
                     /\ feedFile' = feedFile
                     /\ chat_last'.reply \notin {"summary", "parse_error"}
       /\ feedFile' # feedFile => \E u \in UserIds : Attempt(u)]_vars

\* a user whose import was attempted sends a further document without a new parse
\* request and is told to request the import first
C27_Witness ==
    /\ chat_last # PyNone /\ chat_last.op = "document" /\ chat_last.reply = "request_first"
    /\ \E i \in 1..Len(action_log) :
          action_log[i] = <<chat_last.user, "parse_file_received">>
    /\ ~parser_waiting_file[chat_last.user]
    /\ clock > 1

----------------------------------------------------------------------------
(* Claims about the year of a feed item.                                   *)

\* a stored year that is null or an integer from 1900 to 2100
YearInRange(year) == year = PyNone \/ (year.t = "int" /\ 1900 <= year.i /\ year.i <= 2100)

\* the item an update or a submission has just stored
StoredItem ==
    IF last'.op = "add" THEN last'.saved
    ELSE Items(feedFile')[find_feed_item_by_id(load_ads_feed(feedFile', clock'), last'.ad_id)]

\* the step stores a year: a submission, or a successful update whose payload has one
StoresYear ==
    /\ last'.ok
    /\ \/ last'.op = "add"
       \/ last'.op = "update" /\ last'.ad_updates.year # Absent

\* C26: after a successful update whose payload contains year, and after any manual
\* submission, the stored year is null or an integer from 1900 to 2100
C26_YearInRange ==
    [][StoresYear => YearInRange(StoredItem.year)]_vars

\* the stored year is null or the positive integer made of the digits of the payload
C26_YearNullOrPositive ==
    [][StoresYear =>
          LET given == IF last'.op = "add" THEN Get(last'.ad.year) ELSE last'.ad_updates.year
              year == StoredItem.year
          IN  /\ year = PyNone \/ (year.t = "int" /\ year.i # 0)
              /\ year = YearOrNone(given)]_vars

----------------------------------------------------------------------------
(* The relational mirror (src/backend/core/views.py) as the feed mutations *)
(* of the bot fill it (src/bot.py, sync_* helpers).  The mirror is         *)
(* configured and every request reaches it; a request counts as failed     *)
(* when the view answers with an error status.                             *)

\* _upsert_ad_item(payload): the rows afterwards, and whether ValueError is raised
upsert_ad_item(rows, item) ==
    IF Strip(item.id) = "" \/ Strip(item.title) = ""
    THEN [rows |-> rows, raised |-> TRUE]
    ELSE [rows |-> DictSet(rows, Strip(item.id), author_telegram_id(item)), raised |-> FALSE]

\* upsert_ad: status 400 on ValueError
upsert_ad(rows, item) ==
    LET r == upsert_ad_item(rows, item)
    IN  [rows |-> r.rows, failed |-> r.raised]

\* bulk_upsert_ads: the items upserted in order, an item that raises ValueError is
\* reported in "errors" and skipped, the status is 200
RECURSIVE bulk_upsert_ads(_, _)
bulk_upsert_ads(rows, items) ==
    IF items = <<>> THEN [rows |-> rows, failed |-> FALSE]
    ELSE bulk_upsert_ads(upsert_ad_item(rows, Head(items)).rows, Tail(items))

\* update_ad_with_permissions: 404 without the row, 403 when the gate refuses, 400
\* when the updates are not accepted; the rows keep their ad_id
update_ad_with_permissions(rows, ad_id, actor_user_id, actor_role, accepted) ==
    [rows |-> rows,
     failed |-> \/ ad_id \notin DictKeys(rows)
                \/ ~can_actor_manage_ad(normalize_role(actor_role), actor_user_id,
                                        DictGet(rows, ad_id)).allowed
                \/ ~accepted]

\* delete_ad_with_permissions: 404 without the row, 403 when the gate refuses, else
\* the row is deleted
delete_ad_with_permissions(rows, ad_id, actor_user_id, actor_role) ==
    IF ad_id \notin DictKeys(rows) THEN [rows |-> rows, failed |-> TRUE]
    ELSE IF ~can_actor_manage_ad(normalize_role(actor_role), actor_user_id,
                                 DictGet(rows, ad_id)).allowed
         THEN [rows |-> rows, failed |-> TRUE]
         ELSE [rows |-> DictDel(rows, ad_id), failed |-> FALSE]

\* the excel items replace_excel_ads hands to sync_ads_to_backend
ExcelItemsOf(file) == SelectSeq(Items(file), LAMBDA it : it.source_type = "excel")

\* a feed mutation saved `file` and its mirror call left the rows `m.rows`
Synced(op, file, m) ==
    /\ feedFile' = file
    /\ ad_items' = m.rows
    /\ mirror_failed' = (mirror_failed \/ m.failed)
    /\ last' = [op |-> op, ok |-> TRUE, failed |-> m.failed]
    /\ clock' = clock + 1
    /\ UNCHANGED <<mapVars, scoreVars, validateVars, mirrorVars, templateVars, cellVars,
                   cardVars, mergeVars, raceVars, chatVars>>

\* a feed mutation that was rejected: nothing saved, no mirror call
NotSynced(op) ==
    /\ last' = [op |-> op, ok |-> FALSE, failed |-> FALSE]
    /\ clock' = clock + 1
    /\ UNCHANGED <<feedFile, syncVars>>
    /\ UNCHANGED <<mapVars, scoreVars, validateVars, mirrorVars, templateVars, cellVars,
                   cardVars, mergeVars, raceVars, chatVars>>

\* replace_excel_ads and sync_ads_to_backend(excel_items), which returns without a
\* request when there is no item
SyncedImport ==
    /\ clock < MaxMirrorClock
    /\ \E cards \in CardLists :
          LET r == replace_excel_ads(feedFile, cards, clock)
              excel_items == ExcelItemsOf(r.file)
          IN  Synced("replace", r.file,
                     IF excel_items = <<>> THEN [rows |-> ad_items, failed |-> FALSE]
                     ELSE bulk_upsert_ads(ad_items, excel_items))

\* add_manual_ad_to_feed and sync_ad_to_backend(feed_item)
SyncedSubmit ==
    /\ clock < MaxMirrorClock
    /\ \E ad \in AdPool, u \in UserIds :
          LET r == add_manual_ad_to_feed(feedFile, ad, u, clock)
          IN  Synced("add", r.file, upsert_ad(ad_items, r.result))

\* update_manual_ad_in_feed and sync_update_ad_with_permissions
SyncedUpdate ==
    /\ clock < MaxMirrorClock
    /\ \E ad_id \in RequestIds, p \in MirrorUpdates, u \in UserIds, role \in Roles,
          accepted \in BOOLEAN :
          LET r == update_manual_ad_in_feed(feedFile, ad_id, p, u, role, clock)
          IN  IF r.ok
              THEN Synced("update", r.file,
                          update_ad_with_permissions(ad_items, ad_id, u, role, accepted))
              ELSE NotSynced("update")

\* delete_manual_ad_from_feed and sync_delete_ad_with_permissions
SyncedDelete ==
    /\ clock < MaxMirrorClock
    /\ \E ad_id \in RequestIds, u \in UserIds, role \in Roles :
          LET r == delete_manual_ad_from_feed(feedFile, ad_id, u, role, clock)
          IN  IF r.ok
              THEN Synced("delete", r.file,
                          delete_ad_with_permissions(ad_items, ad_id, u, role))
              ELSE NotSynced("delete")

NextSync == SyncedImport \/ SyncedSubmit \/ SyncedUpdate \/ SyncedDelete

SyncInit ==
    /\ ad_items = <<>>
    /\ mirror_failed = FALSE
    /\ backend_sync = TRUE

InitSync == FeedInit /\ SyncInit /\ MapIdle /\ ScoreIdle /\ ValidateIdle /\ TemplateIdle
            /\ CellIdle /\ CardIdle /\ MergeIdle /\ RaceIdle /\ ChatIdle

SpecSync == InitSync /\ [][NextSync]_vars

----------------------------------------------------------------------------
(* Claims about the mirror following the feed.                             *)

\* C28: while every mirror call has succeeded, after any sequence of imports,
\* submissions, updates and deletions the ad_ids of the mirror are the ids of the
\* local feed
C28_MirrorFollowsFeed ==
    ~mirror_failed => DictKeys(ad_items) = FeedIds(feedFile)

----------------------------------------------------------------------------
(* Claims about the price of an imported item.                             *)

\* C29: for every numeric row price the price replace_excel_ads stores, read from
\* the formatted price text of the card, is the integer part of the row price; a card
\* with the price-on-request placeholder is stored with the price 0
C29_StoredPrice ==
    Converted("stored_price") =>
        /\ (~isna(cell) /\ ToFloat(cell).t \in {"float", "inf"}) =>
               /\ cell_out.out.raised = ""
               /\ cell_out.out.ret = IntOfFloat(cell)
        /\ format_price(cell) = Returns(PriceOnRequest) => cell_out.out = Returns(PyInt(0))

\* C29 for the finite prices that are not negative
C29_NotNegative ==
    Converted("stored_price") =>
        /\ (Numeric(cell) /\ ToFloat(cell).m >= 0) =>
               cell_out.out = Returns(IntOfFloat(cell))
        /\ format_price(cell) = Returns(PriceOnRequest) => cell_out.out = Returns(PyInt(0))

\* a negative finite price is stored without its sign
C29_SignLost ==
    (Converted("stored_price") /\ Numeric(cell) /\ ToFloat(cell).m < 0) =>
        cell_out.out = Returns(PyInt(0 - IntOfFloat(cell).i))

----------------------------------------------------------------------------
(* Claims about what a call on the template store leaves alone.            *)

\* what config.json holds, readable or not
Held(file) == IF file.t = "malformed" /\ "was" \in DOMAIN file THEN file.was ELSE file

\* the step leaves the templates under the other names and fuzzy_keywords as the
\* file held them
FrameKept ==
    /\ \A other \in TemplateNames \ {tpl_last'.name} :
          get_mapping_template(Held(configFile'), other)
              = get_mapping_template(Held(configFile), other)
    /\ load_config(Held(configFile')).fuzzy_keywords
          = load_config(Held(configFile)).fuzzy_keywords

\* C30: add_mapping_template(name, m) and delete_mapping_template(name) leave every
\* other stored template and the whole of fuzzy_keywords unchanged, also when
\* config.json cannot be read or parsed at the call
C30_Frame ==
    [][tpl_last'.op \in {"add", "delete"} => FrameKept]_vars

\* C30 for the calls that find config.json missing or readable
C30_ReadableFrame ==
    [][(tpl_last'.op \in {"add", "delete"} /\ configFile.t # "malformed") => FrameKept]_vars

\* C30 for delete_mapping_template on a config.json that cannot be read
C30_UnreadableDelete ==
    [][(tpl_last'.op = "delete" /\ configFile.t = "malformed")
          => (configFile' = configFile /\ tpl_last'.ret = FALSE)]_vars
====
